---- MODULE Spec2Model ----
(***************************************************************************)
(* A model of pynter's defect-thermodynamics layer                         *)
(* (src/pynter/defects/thermodynamics.py): Conductivity, PressureAnalysis  *)
(* and ThermoData, with the DefectsAnalysis they call; of Dataset          *)
(* (src/data/datasets.py); of CalculationSchemes and Scheme                *)
(* (src/vasp/calculation_schemes.py); and of get_delta_atoms               *)
(* (src/pynter/defects/defects.py).                                        *)
(*                                                                         *)
(* Python values are modelled as follows.                                  *)
(*   - a str is a sequence of one-character strings, so that split, join   *)
(*     and substring tests are computed and not assumed;                   *)
(*   - None is the record NoneV, a number is an integer;                   *)
(*   - a dict is a function whose DOMAIN is its key set; where the code    *)
(*     depends on the iteration order of a dict, the dict is a sequence    *)
(*     of <<key, value>> pairs;                                            *)
(*   - concentrations are integers in units of 10^18 cm^-3 and a           *)
(*     conductivity is the integer coefficient of e * 10^18, where         *)
(*     e = 1.60217662e-19 (thermodynamics.py:55) multiplies every term     *)
(*     exactly once.                                                       *)
(***************************************************************************)
EXTENDS Integers, Sequences, FiniteSets, TLC

VARIABLES
    \* Conductivity
    mobilities,     \* Conductivity.mobilities
    cnd_args,       \* arguments of the last get_conductivity call
    cnd_ret,        \* its outcome: the value returned or the exception raised
    \* ThermoData
    td,             \* the ThermoData object under study (NoneV before it is built)
    td_init,        \* the arguments td was constructed with
    fs,             \* the files that exist: path -> JSON document
    written,        \* the paths written by td.to_json
    td_op,          \* the last ThermoData operation and its arguments
    td_ret,         \* its outcome: the value returned or the exception raised
    \* PressureAnalysis
    pa_init,        \* the arguments the PressureAnalysis was constructed with
    frozen_defect_concentrations,   \* PressureAnalysis.frozen_defect_concentrations
    external_defects,               \* PressureAnalysis.external_defects
    quenched_species,   \* the caller's list passed as quenched_species
    pa_call,            \* the method called and its arguments
    pa_pc,              \* "idle", "loop" (inside the for loop) or "done"
    pa_frame,           \* the locals of the running call
    pa_solves,          \* the Fermi-level solves the call has started
    pa_ret,  \* its outcome: the ThermoData returned or the exception raised
    \* Dataset
    ds_walk,  \* what os.walk yields for the dataset directory: (root, files) per directory
    ds,  \* the Dataset object under study (NoneV before it is built)
    ds_op,  \* the last Dataset operation and its arguments
    ds_ret,  \* its outcome: the value returned or the exception raised
    \* CalculationSchemes and Scheme
    cs_scheme,  \* the Scheme under study: its list of steps (NoneV before one is built)
    cs_written,  \* the directories written by write_scheme: path -> what was written last
    cs_op,  \* the last operation on CalculationSchemes or the Scheme and its arguments
    cs_ret,  \* its outcome: the value returned or the exception raised
    \* DefectsAnalysis
    da_supplied,  \* the DefectEntry objects of the species under study, in the order supplied
    da_op,  \* the last DefectsAnalysis operation and its arguments
    da_ret,  \* its outcome: the value returned or the exception raised
    \* get_delta_atoms (defects.py)
    delta_args,  \* the arguments of the last get_delta_atoms or get_delta_atoms_from_comp call
    delta_ret  \* the dictionary it returned

cnd_vars == <<mobilities, cnd_args, cnd_ret>>
td_vars == <<td, td_init, fs, written, td_op, td_ret>>
pa_vars == <<pa_init, frozen_defect_concentrations, external_defects, quenched_species,
             pa_call, pa_pc, pa_frame, pa_solves, pa_ret>>
ds_vars == <<ds_walk, ds, ds_op, ds_ret>>
cs_vars == <<cs_scheme, cs_written, cs_op, cs_ret>>
da_vars == <<da_supplied, da_op, da_ret>>
dl_vars == <<delta_args, delta_ret>>
vars == <<cnd_vars, td_vars, pa_vars, ds_vars, cs_vars, da_vars, dl_vars>>

\* the parts of the state that belong to other classes
other_than_cnd == <<td_vars, pa_vars, ds_vars, cs_vars, da_vars, dl_vars>>
other_than_td == <<cnd_vars, pa_vars, ds_vars, cs_vars, da_vars, dl_vars>>
other_than_pa == <<cnd_vars, td_vars, ds_vars, cs_vars, da_vars, dl_vars>>
other_than_ds == <<cnd_vars, td_vars, pa_vars, cs_vars, da_vars, dl_vars>>
other_than_cs == <<cnd_vars, td_vars, pa_vars, ds_vars, da_vars, dl_vars>>
other_than_da == <<cnd_vars, td_vars, pa_vars, ds_vars, cs_vars, dl_vars>>
other_than_dl == <<cnd_vars, td_vars, pa_vars, ds_vars, cs_vars, da_vars>>

NoneV == [tag |-> "none"]

(***************************************************************************)
(* Python str operations used by the code.                                 *)
(***************************************************************************)
RECURSIVE StartsWithAt(_, _, _)
\* s[i:i+len(sub)] == sub   (i is 1-based)
StartsWithAt(s, sub, i) ==
    /\ i + Len(sub) - 1 <= Len(s)
    /\ \A k \in 1..Len(sub) : s[i + k - 1] = sub[k]

\* sub in s
StrContains(s, sub) == \E i \in 1..(Len(s) + 1) : StartsWithAt(s, sub, i)

RECURSIVE SplitFrom(_, _, _, _)
\* s.split(sep) for a one-character sep: every separator ends a token,
\* empty tokens are kept.
SplitFrom(s, sep, i, cur) ==
    IF i > Len(s) THEN <<cur>>
    ELSE IF s[i] = sep THEN <<cur>> \o SplitFrom(s, sep, i + 1, <<>>)
    ELSE SplitFrom(s, sep, i + 1, Append(cur, s[i]))

StrSplit(s, sep) == SplitFrom(s, sep, 1, <<>>)

RECURSIVE StrJoin(_, _)
\* sep.join(tokens)
StrJoin(sep, tokens) ==
    IF Len(tokens) = 0 THEN <<>>
    ELSE IF Len(tokens) = 1 THEN tokens[1]
    ELSE tokens[1] \o <<sep>> \o StrJoin(sep, Tail(tokens))

RECURSIVE FilterTokens(_, _)
\* [s for s in tokens if sub not in s]
FilterTokens(tokens, sub) ==
    IF Len(tokens) = 0 THEN <<>>
    ELSE IF StrContains(tokens[1], sub) THEN FilterTokens(Tail(tokens), sub)
    ELSE <<tokens[1]>> \o FilterTokens(Tail(tokens), sub)

(***************************************************************************)
(* The strings of the model.                                               *)
(***************************************************************************)
S_mult == <<"m", "u", "l", "t">>
S_holes == <<"h", "o", "l", "e", "s">>
S_electrons == <<"e", "l", "e", "c", "t", "r", "o", "n", "s">>
S_Vac_Na == <<"V", "a", "c", "_", "N", "a">>
S_Vac_Na_mult2 == <<"V", "a", "c", "_", "N", "a", "_", "m", "u", "l", "t", "2">>
S_Int_O == <<"I", "n", "t", "_", "O">>
S_Int_O_mult1 == <<"I", "n", "t", "_", "O", "_", "m", "u", "l", "t", "1">>
S_mult4_Int_O == <<"m", "u", "l", "t", "4", "_", "I", "n", "t", "_", "O">>

\* The ThermoData part of the state when no ThermoData is studied.
IdleData ==
    /\ td = NoneV
    /\ td_init = NoneV
    /\ fs = <<>>
    /\ written = {}
    /\ td_op = NoneV
    /\ td_ret = NoneV

\* The PressureAnalysis part of the state when no PressureAnalysis is studied.
IdlePressure ==
    /\ pa_init = NoneV
    /\ frozen_defect_concentrations = NoneV
    /\ external_defects = <<>>
    /\ quenched_species = NoneV
    /\ pa_call = NoneV
    /\ pa_pc = "idle"
    /\ pa_frame = NoneV
    /\ pa_solves = <<>>
    /\ pa_ret = NoneV

\* The Dataset part of the state when no Dataset is studied.
IdleDataset ==
    /\ ds_walk = <<>>
    /\ ds = NoneV
    /\ ds_op = NoneV
    /\ ds_ret = NoneV

\* The Scheme part of the state when no Scheme is studied.
IdleSchemes ==
    /\ cs_scheme = NoneV
    /\ cs_written = <<>>
    /\ cs_op = NoneV
    /\ cs_ret = NoneV

\* The DefectsAnalysis part of the state when no species is studied.
IdleAnalysis ==
    /\ da_supplied = <<>>
    /\ da_op = NoneV
    /\ da_ret = NoneV

\* The get_delta_atoms part of the state when it has not been called.
IdleDelta ==
    /\ delta_args = NoneV
    /\ delta_ret = NoneV

(***************************************************************************)
(* Conductivity (thermodynamics.py:18-69)                                  *)
(***************************************************************************)
\* 1e06 of line 66: cm^-3 to m^-3
CM3_TO_M3 == 1000000

Abs(x) == IF x < 0 THEN -x ELSE x

\* The mobility key of a defect entry, lines 62-65.
DefectKeyNoStrip(name, ignore_multiplicity) == name

DefectKey(name, ignore_multiplicity) ==
    IF ignore_multiplicity
    THEN StrJoin("_", FilterTokens(StrSplit(name, "_"), S_mult))
    ELSE name

\* One term of sigma_ionic, line 66.
IonicTermNoFactor(m, d) == m * d.conc * Abs(d.charge)

IonicTermSigned(m, d) == m * d.conc * d.charge * CM3_TO_M3

IonicTerm(m, d) == m * d.conc * Abs(d.charge) * CM3_TO_M3

\* mob[key] of a missing key, lines 58 and 66: KeyError.
MobDefaultLookup(mob, key) ==
    IF key \in DOMAIN mob THEN [ok |-> TRUE, v |-> mob[key]]
    ELSE [ok |-> TRUE, v |-> 0]

MobLookup(mob, key) ==
    IF key \in DOMAIN mob THEN [ok |-> TRUE, v |-> mob[key]]
    ELSE [ok |-> FALSE, v |-> 0]

RECURSIVE IonicLoop(_, _, _, _, _, _)
\* The loop of lines 61-66 from entry i on; acc is sigma_ionic and keys the
\* keys looked up so far.  A KeyError carries no value.
IonicLoop(mob, dc, ignore_multiplicity, i, acc, keys) ==
    IF i > Len(dc) THEN [status |-> "ok", sigma |-> acc, keys |-> keys]
    ELSE LET dname == DefectKey(dc[i].name, ignore_multiplicity)
             m == MobLookup(mob, dname)
         IN  IF ~m.ok
             THEN [status |-> "KeyError", keys |-> Append(keys, dname)]
             ELSE IonicLoop(mob, dc, ignore_multiplicity, i + 1,
                            acc + IonicTerm(m.v, dc[i]), Append(keys, dname))

\* Conductivity.get_conductivity, lines 55-69 (temperature is not read).
get_conductivity(mob, cc, dc, ignore_multiplicity) ==
    LET mh == MobLookup(mob, S_holes)
        me == MobLookup(mob, S_electrons)
    IN  IF ~mh.ok
        THEN [status |-> "KeyError", keys |-> <<S_holes>>]
        ELSE IF ~me.ok
        THEN [status |-> "KeyError", keys |-> <<S_holes, S_electrons>>]
        ELSE LET sigma_el == mh.v * cc[1] + me.v * cc[2]
                 r == IonicLoop(mob, dc, ignore_multiplicity, 1, 0,
                                <<S_holes, S_electrons>>)
             IN  IF r.status = "ok"
                 THEN [r EXCEPT !.sigma = sigma_el + r.sigma]
                 ELSE r

\* Inputs of the Conductivity model.
MaxDefects == 2

MobKeys == {S_holes, S_electrons, S_Vac_Na, S_Vac_Na_mult2, S_Int_O}

MobUnit == [k \in MobKeys |-> 1]

MobDistinct ==
    [k \in MobKeys |->
        CASE k = S_holes -> 1
          [] k = S_electrons -> 2
          [] k = S_Vac_Na -> 3
          [] k = S_Vac_Na_mult2 -> 2
          [] OTHER -> 1]

Restrict(f, S) == [k \in S |-> f[k]]

MobilitySet == {Restrict(f, S) : f \in {MobUnit, MobDistinct}, S \in SUBSET MobKeys}

DefectNames == {S_Vac_Na_mult2, S_Int_O_mult1, S_mult4_Int_O}

DefectEntryConcs ==
    [name : DefectNames, charge : {-1, 2}, conc : {1, 100}]

SeqsUpTo(S, n) == UNION {[1..k -> S] : k \in 0..n}

CarrierSet == {<<1, 1>>, <<0, 3>>}

InitCond ==
    /\ mobilities \in MobilitySet
    /\ cnd_args = NoneV
    /\ cnd_ret = NoneV
    /\ IdleData
    /\ IdlePressure
    /\ IdleDataset
    /\ IdleSchemes
    /\ IdleAnalysis
    /\ IdleDelta

\* Conductivity.__init__, line 31
NewConductivity ==
    /\ cnd_args # NoneV
    /\ mobilities' \in MobilitySet
    /\ cnd_args' = NoneV
    /\ cnd_ret' = NoneV
    /\ UNCHANGED other_than_cnd

\* a call of Conductivity.get_conductivity
GetConductivity ==
    /\ cnd_args = NoneV
    /\ \E cc \in CarrierSet, dc \in SeqsUpTo(DefectEntryConcs, MaxDefects),
          ign \in BOOLEAN :
          /\ cnd_args' = [cc |-> cc, dc |-> dc, ignore_multiplicity |-> ign]
          /\ cnd_ret' = get_conductivity(mobilities, cc, dc, ign)
    /\ UNCHANGED mobilities
    /\ UNCHANGED other_than_cnd

NextCond == NewConductivity \/ GetConductivity

SpecCond == InitCond /\ [][NextCond]_vars

(***************************************************************************)
(* Claims about Conductivity, checked under SpecCond.                      *)
(***************************************************************************)
\* The name of each defect entry of the model without its multiplicity
\* qualifier, written out by hand.
ExpectedKey(name) ==
    CASE name = S_Vac_Na_mult2 -> S_Vac_Na
      [] name = S_Int_O_mult1 -> S_Int_O
      [] name = S_mult4_Int_O -> S_Int_O

CndCalled == cnd_args # NoneV

\* The key the claims expect for entry i of the last call.
CndKey(i) ==
    IF cnd_args.ignore_multiplicity THEN ExpectedKey(cnd_args.dc[i].name)
    ELSE cnd_args.dc[i].name

RECURSIVE SumTo(_, _)
SumTo(f, n) == IF n = 0 THEN 0 ELSE f[n] + SumTo(f, n - 1)

\* sum over the defect entries of mob[key] * |charge| * conc * 10^6
CndIonicSum ==
    SumTo([i \in 1..Len(cnd_args.dc) |->
              mobilities[CndKey(i)] * (IF cnd_args.dc[i].charge < 0
                                       THEN -cnd_args.dc[i].charge
                                       ELSE cnd_args.dc[i].charge)
                  * cnd_args.dc[i].conc * 1000000],
          Len(cnd_args.dc))

CndExample ==
    /\ CndCalled
    /\ mobilities = [k \in {S_holes, S_electrons, S_Vac_Na} |-> 1]
    /\ cnd_args = [cc |-> <<1, 1>>,
                   dc |-> <<[name |-> S_Vac_Na_mult2, charge |-> -1, conc |-> 100]>>,
                   ignore_multiplicity |-> TRUE]

\* C8: a returned sigma is e*(mob[holes]*n_holes + mob[electrons]*n_electrons)
\* plus, for every defect entry, mob[name]*|charge|*conc*e*10^6, the 10^6
\* on the defect terms only; the spec's example (carriers 1e18 each, one
\* Vac_Na_mult2 entry of charge -1 at 1e20, all mobilities 1) gives
\* e*(1e18+1e18) + 1e20*e*1e6, that is 2 + 100*10^6 in units of e*10^18.
C8_Sigma ==
    (CndCalled /\ cnd_ret.status = "ok") =>
        /\ cnd_ret.sigma = mobilities[S_holes] * cnd_args.cc[1]
                           + mobilities[S_electrons] * cnd_args.cc[2]
                           + CndIonicSum
        /\ CndExample => cnd_ret.sigma = 100000002

C8_Witness == CndExample /\ cnd_ret.status = "ok" /\ cnd_ret.sigma = 100000002

\* C9: the i-th mobility key looked up for the defect entries is the entry's
\* name without its multiplicity tokens when ignore_multiplicity is True, and
\* the entry's name itself when it is False.
C9_MobilityKey ==
    CndCalled =>
        \A i \in 1..Len(cnd_args.dc) :
            (i + 2 <= Len(cnd_ret.keys)) => cnd_ret.keys[i + 2] = CndKey(i)

C9_Witness ==
    /\ CndCalled
    /\ cnd_args.ignore_multiplicity
    /\ Len(cnd_args.dc) = 2
    /\ cnd_args.dc[1].name = S_Vac_Na_mult2
    /\ cnd_args.dc[2].name = S_mult4_Int_O
    /\ cnd_ret.status = "ok"
    /\ cnd_ret.keys = <<S_holes, S_electrons, S_Vac_Na, S_Int_O>>

C9_WitnessKeep ==
    /\ CndCalled
    /\ ~cnd_args.ignore_multiplicity
    /\ Len(cnd_args.dc) = 1
    /\ cnd_ret.status = "ok"
    /\ cnd_ret.keys = <<S_holes, S_electrons, S_Vac_Na_mult2>>

CndMissing ==
    \/ S_holes \notin DOMAIN mobilities
    \/ S_electrons \notin DOMAIN mobilities
    \/ \E i \in 1..Len(cnd_args.dc) : CndKey(i) \notin DOMAIN mobilities

\* C10: get_conductivity raises KeyError, and returns no value, exactly when
\* 'holes', 'electrons' or the looked-up name of some defect entry has no
\* mobility; a returned sigma never rests on a substituted mobility.
C10_MissingMobility ==
    CndCalled =>
        /\ (cnd_ret.status = "KeyError") = CndMissing
        /\ (cnd_ret.status = "ok") = ~CndMissing
        /\ cnd_ret.status = "KeyError" => "sigma" \notin DOMAIN cnd_ret
        /\ cnd_ret.status = "KeyError" =>
               cnd_ret.keys[Len(cnd_ret.keys)] \notin DOMAIN mobilities

C10_Witness ==
    /\ CndCalled
    /\ {S_holes, S_electrons} \subseteq DOMAIN mobilities
    /\ Len(cnd_args.dc) = 2
    /\ CndKey(1) \in DOMAIN mobilities
    /\ cnd_args.dc[2].conc = 1
    /\ cnd_ret.status = "KeyError"
    /\ Len(cnd_ret.keys) = 4

(***************************************************************************)
(* Python values held by a ThermoData.  Every value carries its type, so   *)
(* that a tuple and a list of the same items are different values, as in   *)
(* Python ((1, 2) != [1, 2]).  A dict keeps its insertion order: it is a   *)
(* sequence of <<key, value>> pairs with distinct keys.                    *)
(***************************************************************************)
Num(n) == [tag |-> "num", n |-> n]
Str(chunks) == [tag |-> "str", s |-> chunks]
Tup(items) == [tag |-> "tuple", items |-> items]
Lst(items) == [tag |-> "list", items |-> items]
Dict(pairs) == [tag |-> "dict", pairs |-> pairs]

\* bool(v), as in "temperature if temperature else None"
Truthy(v) ==
    CASE v.tag = "none" -> FALSE
      [] v.tag = "num" -> v.n # 0
      [] v.tag = "str" -> Len(v.s) > 0
      [] v.tag = "dict" -> Len(v.pairs) > 0
      [] OTHER -> Len(v.items) > 0

\* k in d.keys()
DictHas(d, k) == \E i \in 1..Len(d.pairs) : d.pairs[i][1] = k

\* d[k], for a key that is present
DictGet(d, k) == d.pairs[CHOOSE i \in 1..Len(d.pairs) : d.pairs[i][1] = k][2]

\* d[k] = v: a new key goes last, a present key keeps its place
DictSet(d, k, v) ==
    IF DictHas(d, k)
    THEN Dict([i \in 1..Len(d.pairs) |->
                  IF d.pairs[i][1] = k THEN <<k, v>> ELSE d.pairs[i]])
    ELSE Dict(Append(d.pairs, <<k, v>>))

(***************************************************************************)
(* ThermoData (thermodynamics.py:365-516).  An object is the function      *)
(* from its attribute names to their values.                               *)
(***************************************************************************)
\* setattr(obj, k, v)
SetAttr(obj, k, v) ==
    [a \in (DOMAIN obj) \cup {k} |-> IF a = k THEN v ELSE obj[a]]

RECURSIVE SetAttrs(_, _, _)
\* for k,v in thermodata.items(): setattr(self, k, v)   (lines 398-399)
SetAttrs(obj, pairs, i) ==
    IF i > Len(pairs) THEN obj
    ELSE SetAttrs(SetAttr(obj, pairs[i][1], pairs[i][2]), pairs, i + 1)

\* temperature if temperature else None   (lines 396, 397)
OrNone(v) == IF Truthy(v) THEN v ELSE NoneV

\* ThermoData.__init__, lines 395-399: thermodata.items() needs a dict.
ThermoData(thermodata, temperature, name) ==
    IF thermodata.tag # "dict" THEN [status |-> "AttributeError"]
    ELSE [status |-> "ok",
          obj |-> SetAttrs([data |-> thermodata,
                            temperature |-> OrNone(temperature),
                            name |-> OrNone(name)],
                           thermodata.pairs, 1)]

S_module == Str(<<"pynter.defects.thermodynamics">>)
S_class == Str(<<"ThermoData">>)

\* ThermoData.as_dict, lines 407-413
as_dict_no_temperature(obj) ==
    Dict(<< <<"@module", S_module>>, <<"@class", S_class>>,
            <<"thermodata", obj.data>>,
            <<"temperature", NoneV>>,
            <<"name", obj.name>> >>)

as_dict(obj) ==
    Dict(<< <<"@module", S_module>>, <<"@class", S_class>>,
            <<"thermodata", obj.data>>,
            <<"temperature", obj.temperature>>,
            <<"name", obj.name>> >>)

\* ThermoData.from_dict, lines 450-458
from_dict_drops_name(d) ==
    IF DictHas(d, "thermodata")
    THEN ThermoData(DictGet(d, "thermodata"), DictGet(d, "temperature"), NoneV)
    ELSE ThermoData(d, NoneV, NoneV)

from_dict(d) ==
    IF DictHas(d, "thermodata")
    THEN IF ~DictHas(d, "temperature") \/ ~DictHas(d, "name")
         THEN [status |-> "KeyError"]
         ELSE ThermoData(DictGet(d, "thermodata"), DictGet(d, "temperature"),
                         DictGet(d, "name"))
    ELSE ThermoData(d, NoneV, NoneV)

(***************************************************************************)
(* json.dump and json.load.  A JSON document is a tree of numbers, null,   *)
(* strings, arrays and objects: JSON has one array type, so json.dump      *)
(* writes a tuple and a list alike and json.load reads every array as a    *)
(* list.                                                                   *)
(***************************************************************************)
JNum(n) == [j |-> "number", n |-> n]
JNull == [j |-> "null"]
JStr(chunks) == [j |-> "string", s |-> chunks]
JArr(items) == [j |-> "array", items |-> items]
JObj(pairs) == [j |-> "object", pairs |-> pairs]

RECURSIVE json_dump(_)
json_dump(v) ==
    CASE v.tag = "none" -> JNull
      [] v.tag = "num" -> JNum(v.n)
      [] v.tag = "str" -> JStr(v.s)
      [] v.tag = "tuple" -> JArr([i \in 1..Len(v.items) |-> json_dump(v.items[i])])
      [] v.tag = "list" -> JArr([i \in 1..Len(v.items) |-> json_dump(v.items[i])])
      [] v.tag = "dict" ->
            JObj([i \in 1..Len(v.pairs) |->
                     <<v.pairs[i][1], json_dump(v.pairs[i][2])>>])

RECURSIVE json_load(_)
json_load(x) ==
    CASE x.j = "null" -> NoneV
      [] x.j = "number" -> Num(x.n)
      [] x.j = "string" -> Str(x.s)
      [] x.j = "array" -> Lst([i \in 1..Len(x.items) |-> json_load(x.items[i])])
      [] x.j = "object" ->
            Dict([i \in 1..Len(x.pairs) |->
                     <<x.pairs[i][1], json_load(x.pairs[i][2])>>])

\* str(name) inside f'thermodata_{self.name}.json'
NameText(name) == IF name.tag = "none" THEN <<"None">> ELSE name.s

\* the file to_json writes, lines 429-430
to_json_path(obj, path) ==
    IF Truthy(path) THEN path
    ELSE Str(<<"cwd/", "thermodata_">> \o NameText(obj.name) \o <<".json">>)

\* json.dumps(d): the str that spells the JSON document of d
json_dumps(d) == [tag |-> "str", text |-> json_dump(d)]

\* ThermoData.from_json, lines 477-482: json.load of a str has no file to
\* read from and raises AttributeError.
from_json(files, path_or_string) ==
    IF path_or_string \in DOMAIN files
    THEN from_dict(json_load(files[path_or_string]))
    ELSE [status |-> "AttributeError"]

(***************************************************************************)
(* ThermoData.get_specific_pressures, lines 499-516                        *)
(***************************************************************************)
\* v.index(e): the first position holding a value equal to e
ListIndex(v, e) == CHOOSE k \in 1..Len(v) : v[k] = e /\ \A m \in 1..(k - 1) : v[m] # e

RECURSIVE MinByDistance(_, _, _, _)
\* min(pressures, key=lambda x: abs(x-p)): the first element of least key
MinByDistance(pressures, p, i, best) ==
    IF i > Len(pressures) THEN best
    ELSE IF Abs(pressures[i].n - p.n) < Abs(best.n - p.n)
         THEN MinByDistance(pressures, p, i + 1, pressures[i])
         ELSE MinByDistance(pressures, p, i + 1, best)

RECURSIVE SelectFromList(_, _, _, _, _)
\* for e in v: if v.index(e) == index: seldata[k].append(e)   (lines 505-509)
SelectFromList(seldata, k, v, index, i) ==
    IF i > Len(v) THEN seldata
    ELSE IF ListIndex(v, v[i]) = index
         THEN LET old == IF DictHas(seldata, k) THEN DictGet(seldata, k).items ELSE <<>>
              IN  SelectFromList(DictSet(seldata, k, Lst(Append(old, v[i]))),
                                 k, v, index, i + 1)
         ELSE SelectFromList(seldata, k, v, index, i + 1)

RECURSIVE SelectFromData(_, _, _, _)
\* for k,v in self.data.items(): ...   (line 504)
SelectFromData(seldata, data, index, i) ==
    IF i > Len(data.pairs) THEN seldata
    ELSE SelectFromData(
             SelectFromList(seldata, data.pairs[i][1], data.pairs[i][2].items, index, 1),
             data, index, i + 1)

RECURSIVE SelectPressures(_, _, _, _)
\* The loop of lines 500-509 from p_values[j] on.  self.partial_pressures of
\* an object without that attribute raises AttributeError and min() of an
\* empty list ValueError.
SelectPressures(obj, p_values, j, seldata) ==
    IF j > Len(p_values) THEN [status |-> "ok", seldata |-> seldata]
    ELSE IF "partial_pressures" \notin DOMAIN obj THEN [status |-> "AttributeError"]
    ELSE LET pressures == obj.partial_pressures.items
         IN  IF Len(pressures) = 0 THEN [status |-> "ValueError"]
             ELSE LET p_sel == MinByDistance(pressures, p_values[j], 2, pressures[1])
                      index == ListIndex(pressures, p_sel)
                  IN  SelectPressures(obj, p_values, j + 1,
                                      SelectFromData(seldata, obj.data, index, 1))

RECURSIVE JoinText(_, _)
\* '-'.join([str(p) for p in p_values])
JoinText(p_values, j) ==
    IF j > Len(p_values) THEN <<>>
    ELSE (IF j > 1 THEN <<"-">> ELSE <<>>) \o <<ToString(p_values[j].n)>>
         \o JoinText(p_values, j + 1)

get_specific_pressures(obj, p_values) ==
    LET sel == SelectPressures(obj, p_values, 1, Dict(<<>>))
    IN  IF sel.status # "ok" THEN sel
        ELSE ThermoData(sel.seldata,
                        OrNone(obj.temperature),
                        IF Truthy(obj.name)
                        THEN Str(obj.name.s \o <<"p_">> \o JoinText(p_values, 1))
                        ELSE NoneV)

(***************************************************************************)
(* The ThermoData objects, files and requests of the model.                *)
(***************************************************************************)
MaxLen == 2
MaxReq == 2

PressureVals == {Num(1), Num(3)}
FermiVals == {Num(5), Num(6)}
CarrierVals == {Tup(<<Num(1), Num(2)>>)}
RequestVals == {Num(1), Num(2), Num(3)}
TemperatureVals == {NoneV, Num(0), Num(300), Tup(<<Num(300), Num(77)>>)}
NameVals == {NoneV, Str(<<>>), Str(<<"A">>)}

\* The series a data dict may hold, in the order PressureAnalysis inserts them.
SeriesOf(key, n) ==
    CASE key = "partial_pressures" -> [1..n -> PressureVals]
      [] key = "fermi_levels" -> [1..n -> FermiVals]
      [] key = "carrier_concentrations" -> [1..n -> CarrierVals]

OptionalPair(key, n) ==
    {<<>>} \cup {<< <<key, Lst(v)>> >> : v \in SeriesOf(key, n)}

\* Index-aligned data dicts of n points; every series is optional.
DataDicts ==
    UNION {{Dict(a \o b \o c) : a \in OptionalPair("partial_pressures", n),
                                b \in OptionalPair("fermi_levels", n),
                                c \in OptionalPair("carrier_concentrations", n)}
           : n \in 0..MaxLen}

P_out == Str(<<"out.json">>)
P_old == Str(<<"old.json">>)
\* the text of a JSON document, which is no path of a file
P_text == Str(<<"{\"thermodata\": {}, \"temperature\": null, \"name\": null}">>)

\* A file in the format from_dict calls old: the data dict alone.
OldFormatDoc ==
    json_dump(Dict(<< <<"partial_pressures", Lst(<<Num(1)>>)>>,
                      <<"fermi_levels", Lst(<<Num(5)>>)>> >>))

InitData ==
    /\ td = NoneV
    /\ td_init = NoneV
    /\ fs = (P_old :> OldFormatDoc)
    /\ written = {}
    /\ td_op = NoneV
    /\ td_ret = NoneV
    /\ mobilities = NoneV
    /\ cnd_args = NoneV
    /\ cnd_ret = NoneV
    /\ IdlePressure
    /\ IdleDataset
    /\ IdleSchemes
    /\ IdleAnalysis
    /\ IdleDelta

\* ThermoData(thermodata, temperature, name)
NewThermoData ==
    /\ td = NoneV
    /\ \E thermodata \in DataDicts, temperature \in TemperatureVals, name \in NameVals :
          /\ td' = ThermoData(thermodata, temperature, name).obj
          /\ td_init' = [thermodata |-> thermodata, temperature |-> temperature,
                         name |-> name]
    /\ td_op' = [op |-> "init"]
    /\ td_ret' = NoneV
    /\ UNCHANGED <<fs, written>>
    /\ UNCHANGED other_than_td

\* ThermoData.from_dict(td.as_dict())
AsDictFromDict ==
    /\ td # NoneV
    /\ td_op.op = "init"
    /\ td_op' = [op |-> "from_dict"]
    /\ td_ret' = from_dict(as_dict(td))
    /\ UNCHANGED <<td, td_init, fs, written>>
    /\ UNCHANGED other_than_td

\* td.to_json(path): json.dump(self.as_dict(), file); returns None
ToJson ==
    /\ td # NoneV
    /\ td_op.op = "init"
    /\ \E path \in {P_out, NoneV} :
          LET file == to_json_path(td, path)
          IN  /\ fs' = [f \in (DOMAIN fs) \cup {file} |->
                           IF f = file THEN json_dump(as_dict(td)) ELSE fs[f]]
              /\ written' = written \cup {file}
              /\ td_op' = [op |-> "to_json", path |-> path]
    /\ td_ret' = [status |-> "ok", value |-> NoneV]
    /\ UNCHANGED <<td, td_init>>
    /\ UNCHANGED other_than_td

\* ThermoData.from_json(path_or_string)
FromJson ==
    /\ td # NoneV
    /\ td_op.op \in {"init", "to_json"}
    /\ \E arg \in (DOMAIN fs) \cup {P_out, P_text, json_dumps(as_dict(td))} :
          /\ td_op' = [op |-> "from_json", arg |-> arg]
          /\ td_ret' = from_json(fs, arg)
    /\ UNCHANGED <<td, td_init, fs, written>>
    /\ UNCHANGED other_than_td

\* td.get_specific_pressures(p_values)
GetSpecificPressures ==
    /\ td # NoneV
    /\ td_op.op = "init"
    /\ \E p_values \in SeqsUpTo(RequestVals, MaxReq) :
          /\ td_op' = [op |-> "get_specific_pressures", p_values |-> p_values]
          /\ td_ret' = get_specific_pressures(td, p_values)
    /\ UNCHANGED <<td, td_init, fs, written>>
    /\ UNCHANGED other_than_td

\* The objects and the files written are dropped.
DropThermoData ==
    /\ td # NoneV
    /\ td_op.op # "init"
    /\ td' = NoneV
    /\ td_init' = NoneV
    /\ fs' = (P_old :> OldFormatDoc)
    /\ written' = {}
    /\ td_op' = NoneV
    /\ td_ret' = NoneV
    /\ UNCHANGED other_than_td

NextData ==
    \/ NewThermoData
    \/ AsDictFromDict
    \/ ToJson
    \/ FromJson
    \/ GetSpecificPressures
    \/ DropThermoData

SpecData == InitData /\ [][NextData]_vars

(***************************************************************************)
(* Claims about ThermoData, checked under SpecData.                        *)
(***************************************************************************)
TdDid(op) == td # NoneV /\ td_op.op = op

\* the keys of a dict, in order
DictKeys(d) == [i \in 1..Len(d.pairs) |-> d.pairs[i][1]]

\* The first index i minimising |pressures[i] - p|.
NearestIndex(pressures, p) ==
    CHOOSE i \in 1..Len(pressures) :
        /\ \A k \in 1..Len(pressures) :
               Abs(pressures[i].n - p.n) <= Abs(pressures[k].n - p.n)
        /\ \A k \in 1..(i - 1) :
               Abs(pressures[k].n - p.n) > Abs(pressures[i].n - p.n)

\* td holds a non-empty partial_pressures series (its other series are
\* index-aligned with it by construction).
TdHasPressures ==
    /\ DictHas(td.data, "partial_pressures")
    /\ Len(td.partial_pressures.items) > 0

\* The result of get_specific_pressures is, series by series, the slice the
\* requested values select.
TdSelectionIsSlice ==
    /\ td_ret.status = "ok"
    /\ Len(td_op.p_values) > 0 => DictKeys(td_ret.obj.data) = DictKeys(td.data)
    /\ \A i \in 1..Len(td_ret.obj.data.pairs) :
          LET k == td_ret.obj.data.pairs[i][1]
              got == td_ret.obj.data.pairs[i][2].items
          IN  /\ DictHas(td.data, k)
              /\ Len(got) = Len(td_op.p_values)
              /\ \A j \in 1..Len(got) :
                     got[j] = DictGet(td.data, k).items[
                                  NearestIndex(td.partial_pressures.items,
                                               td_op.p_values[j])]

\* C2: get_specific_pressures(p_values) returns, in every series, exactly one
\* entry per requested value, the j-th being the original's entry at the first
\* index nearest to p_values[j], also when a series holds equal values at
\* different indices.
C2_SpecificPressures ==
    (TdDid("get_specific_pressures") /\ TdHasPressures) => TdSelectionIsSlice

NoRepeats(v) == \A a, b \in 1..Len(v) : v[a] = v[b] => a = b

TdNoRepeats == \A i \in 1..Len(td.data.pairs) : NoRepeats(td.data.pairs[i][2].items)

\* C2 holds of the code when no series of the ThermoData repeats a value.
C2_WithoutRepeats ==
    (TdDid("get_specific_pressures") /\ TdHasPressures /\ TdNoRepeats)
        => TdSelectionIsSlice

C3_WitnessFalsy ==
    /\ TdDid("from_dict")
    /\ td_init.temperature = Num(0)
    /\ td_init.name = Str(<<>>)
    /\ td.temperature = NoneV
    /\ td_ret.obj.name = NoneV

\* from_json read a file that to_json wrote for td.
TdReadBack == TdDid("from_json") /\ td_op.arg \in written

\* C4 as claimed: to_json(path) then from_json(path) reproduces the
\* sequences, the temperature and the name exactly.
C4_JsonRoundTripExact ==
    TdReadBack =>
        /\ td_ret.status = "ok"
        /\ td_ret.obj.data = td.data
        /\ td_ret.obj.temperature = td.temperature
        /\ td_ret.obj.name = td.name

RECURSIVE TuplesAsLists(_)
\* v with every tuple replaced by the list of the same items
TuplesAsLists(v) ==
    CASE v.tag \in {"tuple", "list"} ->
            Lst([i \in 1..Len(v.items) |-> TuplesAsLists(v.items[i])])
      [] v.tag = "dict" ->
            Dict([i \in 1..Len(v.pairs) |->
                     <<v.pairs[i][1], TuplesAsLists(v.pairs[i][2])>>])
      [] OTHER -> v

RECURSIVE HasTuple(_)
HasTuple(v) ==
    CASE v.tag = "tuple" -> TRUE
      [] v.tag = "list" -> \E i \in 1..Len(v.items) : HasTuple(v.items[i])
      [] v.tag = "dict" -> \E i \in 1..Len(v.pairs) : HasTuple(v.pairs[i][2])
      [] OTHER -> FALSE

\* C4 as amended: to_json(path) then from_json(path) reproduces the keys, the
\* values and their order, the temperature and the name, except that every
\* tuple (a (holes, electrons) pair, the quenching temperature pair) is read
\* back as a list of the same items; a ThermoData holding no tuple is
\* reproduced exactly.
C4_JsonRoundTrip ==
    TdReadBack =>
        /\ td_ret.status = "ok"
        /\ td_ret.obj.data = TuplesAsLists(td.data)
        /\ td_ret.obj.temperature = TuplesAsLists(td.temperature)
        /\ td_ret.obj.name = td.name
        /\ (~HasTuple(td.data) /\ ~HasTuple(td.temperature)) =>
               /\ td_ret.obj.data = td.data
               /\ td_ret.obj.temperature = td.temperature

C4_Witness ==
    /\ TdReadBack
    /\ td_op.arg = P_out
    /\ td.temperature = Tup(<<Num(300), Num(77)>>)
    /\ td.name = Str(<<"A">>)
    /\ DictHas(td.data, "carrier_concentrations")
    /\ td.carrier_concentrations = Lst(<<Tup(<<Num(1), Num(2)>>), Tup(<<Num(1), Num(2)>>)>>)
    /\ td_ret.status = "ok"
    /\ td_ret.obj.carrier_concentrations
           = Lst(<<Lst(<<Num(1), Num(2)>>), Lst(<<Num(1), Num(2)>>)>>)
    /\ td_ret.obj.temperature = Lst(<<Num(300), Num(77)>>)
    /\ DictHas(td.data, "partial_pressures")
    /\ td.partial_pressures = Lst(<<Num(3), Num(1)>>)
    /\ td_ret.obj.partial_pressures = td.partial_pressures

(***************************************************************************)
(* DefectsAnalysis (pynter.defects.analysis), the collaborator that        *)
(* PressureAnalysis drives.  Its source is not part of the files modelled  *)
(* here: it is modelled from sections 3 and 4.1 of the specification, on   *)
(* integers.  A chemical-potential vector is the integer mu of one         *)
(* element, the Fermi level ranges over the grid 0..GridMax, and exp(-E/kT) *)
(* is replaced by a weight that decreases with E and grows with T.  A      *)
(* dict of frozen concentrations is FDict(f), f the function from the      *)
(* names to the concentrations; no dict is NoneV.                          *)
(***************************************************************************)
FDict(f) == [tag |-> "fdict", map |-> f]

\* The defect entries of the analysis: two charge states of Vac_Na, one of Int_O.
da_entries ==
    << [name |-> S_Vac_Na_mult2, charge |-> -1, E_ref |-> 3, delta |-> 1, mult |-> 2],
       [name |-> S_Vac_Na_mult2, charge |-> 0, E_ref |-> 2, delta |-> 1, mult |-> 2],
       [name |-> S_Int_O_mult1, charge |-> 2, E_ref |-> 1, delta |-> -1, mult |-> 1] >>

\* the Fermi-level grid 0..GridMax: the band gap
GridMax == 4

Max(a, b) == IF a > b THEN a ELSE b

\* E_formation = E_ref + charge * Ef + sum(delta[el] * mu[el])
formation_energy(e, mu, Ef) == e.E_ref + e.charge * Ef + e.delta * mu

\* the stand-in of exp(-E / (k_B T))
boltzmann_weight(E, T) == Max(0, 3 * T - E)

\* the names of the species, in entry order, without repetition
RECURSIVE species_names(_, _)
species_names(i, seen) ==
    IF i > Len(da_entries) THEN seen
    ELSE IF \E k \in 1..Len(seen) : seen[k] = da_entries[i].name
         THEN species_names(i + 1, seen)
         ELSE species_names(i + 1, Append(seen, da_entries[i].name))

\* a name without its multiplicity part
name_without_multiplicity(n) == StrJoin("_", FilterTokens(StrSplit(n, "_"), S_mult))

\* the key under which a frozen concentration is looked up for a species: its
\* name without the multiplicity part
frozen_keys ==
    [n \in {da_entries[i].name : i \in 1..Len(da_entries)} |->
        name_without_multiplicity(n)]

frozen_key(name) == frozen_keys[name]

\* The frozen concentrations by species: the multiplicity part of a key is
\* ignored, and of two keys of one species the one that carries it is taken.
frozen_by_species(frozen) ==
    IF frozen.tag = "none" THEN NoneV
    ELSE LET f == frozen.map
             sp == {name_without_multiplicity(k) : k \in DOMAIN f}
             key(s) == IF \E k \in DOMAIN f : k # s /\ name_without_multiplicity(k) = s
                       THEN CHOOSE k \in DOMAIN f :
                                k # s /\ name_without_multiplicity(k) = s
                       ELSE s
         IN  FDict([s \in sp |-> f[key(s)]])

\* frozen: the frozen concentrations by species
is_frozen(frozen, name) ==
    frozen.tag # "none" /\ frozen_key(name) \in DOMAIN frozen.map

\* the free concentration, had the charge entered the formation energy with
\* the opposite sign
free_concentration_reversed(e, mu, T, Ef) ==
    e.mult * boltzmann_weight(e.E_ref - e.charge * Ef + e.delta * mu, T)

\* the concentration of entry e free to equilibrate
free_concentration(e, mu, T, Ef) ==
    e.mult * boltzmann_weight(formation_energy(e, mu, Ef), T)

\* the free concentration of a whole species
species_free_total(name, mu, T, Ef) ==
    SumTo([i \in 1..Len(da_entries) |->
              IF da_entries[i].name = name
              THEN free_concentration(da_entries[i], mu, T, Ef) ELSE 0],
          Len(da_entries))

\* the first entry of the species of least formation energy
stable_entry(name, mu, Ef) ==
    CHOOSE i \in 1..Len(da_entries) :
        /\ da_entries[i].name = name
        /\ \A k \in 1..Len(da_entries) :
               da_entries[k].name = name =>
                   \/ formation_energy(da_entries[i], mu, Ef)
                          < formation_energy(da_entries[k], mu, Ef)
                   \/ /\ formation_energy(da_entries[i], mu, Ef)
                             = formation_energy(da_entries[k], mu, Ef)
                      /\ da_entries[i].charge <= da_entries[k].charge

\* The concentration of entry i: a frozen species keeps its given total,
\* shared among its charge states as their free concentrations are (all of
\* it in the stable charge state when those are zero).
\* frozen: the frozen concentrations by species
entry_concentration(i, mu, T, Ef, frozen) ==
    LET e == da_entries[i]
        c == free_concentration(e, mu, T, Ef)
        tot == species_free_total(e.name, mu, T, Ef)
    IN  IF ~is_frozen(frozen, e.name) THEN c
        ELSE IF tot = 0
             THEN (IF stable_entry(e.name, mu, Ef) = i
                   THEN frozen.map[frozen_key(e.name)] ELSE 0)
             ELSE (frozen.map[frozen_key(e.name)] * c) \div tot

\* DefectsAnalysis.carrier_concentrations: (holes, electrons)
carrier_concentrations(T, Ef) == <<T * (GridMax - Ef), T * Ef>>

\* DefectsAnalysis.defect_concentrations: one {name, charge, conc} per entry
defect_concentrations(mu, T, Ef, frozen) ==
    LET fz == frozen_by_species(frozen)
    IN  [i \in 1..Len(da_entries) |->
            [name |-> da_entries[i].name, charge |-> da_entries[i].charge,
             conc |-> entry_concentration(i, mu, T, Ef, fz)]]

\* DefectsAnalysis.defect_concentrations_stable_charges: the stable charge
\* state of every species
defect_concentrations_stable_charges(mu, T, Ef, frozen) ==
    LET names == species_names(1, <<>>)
    IN  [k \in 1..Len(names) |->
            defect_concentrations(mu, T, Ef, frozen)[stable_entry(names[k], mu, Ef)]]

\* DefectsAnalysis.defect_concentrations_total: {name: summed concentration}
defect_concentrations_total(mu, T, Ef, frozen) ==
    LET names == species_names(1, <<>>)
        fz == frozen_by_species(frozen)
    IN  [k \in 1..Len(names) |->
            <<names[k],
              SumTo([i \in 1..Len(da_entries) |->
                        IF da_entries[i].name = names[k]
                        THEN entry_concentration(i, mu, T, Ef, fz) ELSE 0],
                    Len(da_entries))>>]

\* net charge: holes - electrons + sum(charge * concentration), external
\* defects included (frozen: the frozen concentrations by species)
charge_neutrality_residual(mu, T, Ef, frozen, external) ==
    carrier_concentrations(T, Ef)[1] - carrier_concentrations(T, Ef)[2]
    + SumTo([i \in 1..Len(da_entries) |->
                da_entries[i].charge * entry_concentration(i, mu, T, Ef, frozen)],
            Len(da_entries))
    + SumTo([i \in 1..Len(external) |-> external[i].charge * external[i].conc],
            Len(external))

\* a search that stops at the top of the bracket whatever the residual does
first_root_top(frozen, mu, external, T, Ef) == GridMax

RECURSIVE first_root(_, _, _, _, _)
\* the first grid point from Ef on where the net charge is no longer positive
first_root(frozen, mu, external, T, Ef) ==
    IF Ef >= GridMax THEN GridMax
    ELSE IF charge_neutrality_residual(mu, T, Ef, frozen, external) <= 0 THEN Ef
    ELSE first_root(frozen, mu, external, T, Ef + 1)

\* The bracketed root search: the first grid point where the net charge is
\* no longer positive; FermiLevelNotFoundError when the net charge has one
\* sign over the whole grid.
non_equilibrium_fermi_level(frozen, mu, external, T) ==
    LET fz == frozen_by_species(frozen)
    IN  IF \/ charge_neutrality_residual(mu, T, 0, fz, external) < 0
           \/ charge_neutrality_residual(mu, T, GridMax, fz, external) > 0
        THEN [status |-> "FermiLevelNotFoundError"]
        ELSE [status |-> "ok", mue |-> first_root(fz, mu, external, T, 0)]

equilibrium_fermi_level(mu, T) == non_equilibrium_fermi_level(NoneV, mu, <<>>, T)

(***************************************************************************)
(* PressureAnalysis (thermodynamics.py:72-362)                             *)
(*                                                                         *)
(* A reservoirs object is [points, has_temperature, temperature]: points   *)
(* is the mapping in iteration order, a sequence of <<pressure, mu>>,      *)
(* has_temperature says whether the object has a temperature attribute     *)
(* (a plain dict has none) and temperature is that attribute's value.      *)
(***************************************************************************)
\* PressureAnalysis.__init__, lines 94-95
init_frozen(frozen_defect_concentrations_arg) ==
    IF frozen_defect_concentrations_arg.tag # "none"
       /\ DOMAIN frozen_defect_concentrations_arg.map # {}
    THEN frozen_defect_concentrations_arg
    ELSE NoneV

init_external(external_defects_arg) ==
    IF Len(external_defects_arg) > 0
    THEN external_defects_arg
    ELSE <<>>

\* Lines 135-140 (and 206-211, 260-265): the temperature of the solves.
resolve_temperature(temperature, res) ==
    IF Truthy(temperature) THEN [status |-> "ok", T |-> temperature]
    ELSE IF res.has_temperature THEN [status |-> "ok", T |-> res.temperature]
    ELSE [status |-> "ValueError"]

\* Lines 149-152 (and 219-222, 272-275, 338-341): the Fermi level of one
\* point.  DefectsAnalysis computes with the temperature: None there is a
\* TypeError.
fermi_solver_equilibrium(frozen_df, ext_df) == "equilibrium_fermi_level"

\* "if frozen_df or ext_df" of lines 149, 219, 272 and 338
fermi_solver(frozen_df, ext_df) ==
    IF (frozen_df.tag # "none" /\ DOMAIN frozen_df.map # {}) \/ Len(ext_df) > 0
    THEN "non_equilibrium_fermi_level"
    ELSE "equilibrium_fermi_level"

solve_fermi_level(frozen_df, ext_df, mu, T) ==
    IF T.tag # "num" THEN [status |-> "TypeError"]
    ELSE IF fermi_solver(frozen_df, ext_df) = "non_equilibrium_fermi_level"
         THEN non_equilibrium_fermi_level(frozen_df, mu, ext_df, T.n)
         ELSE equilibrium_fermi_level(mu, T.n)

\* the Python values appended to the series
PyEntry(d) ==
    Dict(<< <<"name", Str(d.name)>>, <<"charge", Num(d.charge)>>,
            <<"conc", Num(d.conc)>> >>)

PyEntries(dc) == Lst([i \in 1..Len(dc) |-> PyEntry(dc[i])])

PyTotals(tot) == Dict([i \in 1..Len(tot) |-> <<tot[i][1], Num(tot[i][2])>>])

PyCarriers(cc) == Tup(<<Num(cc[1]), Num(cc[2])>>)

\* list(res.keys())
reservoir_keys(res) == Lst([i \in 1..Len(res.points) |-> Num(res.points[i][1])])

\* Lines 153-160: the defect concentrations in the requested form.
concentrations_for_output(concentrations_output, mu, T, mue, frozen_df) ==
    CASE concentrations_output = "all" ->
            [status |-> "ok", conc |-> PyEntries(defect_concentrations(mu, T, mue, frozen_df))]
      [] concentrations_output = "total" ->
            [status |-> "ok",
             conc |-> PyTotals(defect_concentrations_total(mu, T, mue, frozen_df))]
      [] concentrations_output = "stable" ->
            [status |-> "ok",
             conc |-> PyEntries(defect_concentrations_stable_charges(mu, T, mue, frozen_df))]
      [] OTHER -> [status |-> "ValueError"]

\* one iteration, had the 'stable' output solved its own Fermi level for the
\* pristine material instead of taking the one of lines 149-152
concentrations_point_own_level(frozen_df, ext_df, concentrations_output, mu, T) ==
    LET f == IF concentrations_output = "stable"
             THEN solve_fermi_level(NoneV, <<>>, mu, T)
             ELSE solve_fermi_level(frozen_df, ext_df, mu, T)
    IN  IF f.status # "ok" THEN f
        ELSE LET c == concentrations_for_output(concentrations_output, mu, T.n,
                                                f.mue, frozen_df)
             IN  IF c.status # "ok" THEN c
                 ELSE [status |-> "ok", mue |-> f.mue, conc |-> c.conc,
                       carriers |-> carrier_concentrations(T.n, f.mue)]

\* One iteration of the loop of get_concentrations, lines 148-164.
concentrations_point(frozen_df, ext_df, concentrations_output, mu, T) ==
    LET f == solve_fermi_level(frozen_df, ext_df, mu, T)
    IN  IF f.status # "ok" THEN f
        ELSE LET c == concentrations_for_output(concentrations_output, mu, T.n,
                                                f.mue, frozen_df)
             IN  IF c.status # "ok" THEN c
                 ELSE [status |-> "ok", mue |-> f.mue, conc |-> c.conc,
                       carriers |-> carrier_concentrations(T.n, f.mue)]

\* One iteration of the loop of get_conductivities, lines 218-226:
\* get_conductivity is called without ignore_multiplicity.
conductivities_point(frozen_df, ext_df, mob, mu, T) ==
    LET f == solve_fermi_level(frozen_df, ext_df, mu, T)
    IN  IF f.status # "ok" THEN f
        ELSE LET conc == defect_concentrations(mu, T.n, f.mue, frozen_df)
                 carriers == carrier_concentrations(T.n, f.mue)
                 r == get_conductivity(mob, carriers, conc, TRUE)
             IN  IF r.status # "ok" THEN [status |-> r.status]
                 ELSE [status |-> "ok", mue |-> f.mue, sigma |-> r.sigma]

RECURSIVE FirstOccurrence(_, _, _)
\* the first position of sub in s from i on, 0 when there is none
FirstOccurrence(s, sub, i) ==
    IF i + Len(sub) - 1 > Len(s) THEN 0
    ELSE IF StartsWithAt(s, sub, i) THEN i
    ELSE FirstOccurrence(s, sub, i + 1)

\* s.split(sub, 1)[0]
StrBefore(s, sub) ==
    IF FirstOccurrence(s, sub, 1) = 0 THEN s
    ELSE SubSeq(s, 1, FirstOccurrence(s, sub, 1) - 1)

S__mult == <<"_", "m", "u", "l", "t">>

RECURSIVE strip_quenched_species(_, _, _)
\* Lines 332-335: for n in qs: quenched_species[qs.index(n)] = new_key, qs
\* being the copy made before the loop.
strip_quenched_species(quenched, qs, i) ==
    IF i > Len(qs) THEN quenched
    ELSE strip_quenched_species(
             [quenched EXCEPT ![ListIndex(qs, qs[i])] = StrBefore(qs[i], S__mult)],
             qs, i + 1)

RECURSIVE strip_total_keys(_, _, _)
\* Lines 344-346: for n in list(c1.keys()): c1[new_key] = c1.pop(n); keys is
\* the list of keys made before the loop.
strip_total_keys(c1, keys, i) ==
    IF i > Len(keys) THEN c1
    ELSE LET n == keys[i]
             new_key == StrBefore(n, S__mult)
             popped == [k \in (DOMAIN c1) \ {n} |-> c1[k]]
         IN  strip_total_keys(
                 [k \in (DOMAIN popped) \cup {new_key} |->
                     IF k = new_key THEN c1[n] ELSE popped[k]],
                 keys, i + 1)

freeze_species_none(qc, c1, quenched, i) == [status |-> "ok", qc |-> qc]

RECURSIVE freeze_species(_, _, _, _)
\* Lines 351-352: for k in quenched_species: quenched_concentrations[k] = c1[k]
freeze_species(qc, c1, quenched, i) ==
    IF i > Len(quenched) THEN [status |-> "ok", qc |-> qc]
    ELSE IF quenched[i] \notin DOMAIN c1 THEN [status |-> "KeyError"]
    ELSE freeze_species(
             [k \in (DOMAIN qc) \cup {quenched[i]} |->
                 IF k = quenched[i] THEN c1[k] ELSE qc[k]],
             c1, quenched, i + 1)

\* the dict of defect_concentrations_total as a function
TotalsDict(tot) ==
    [k \in {tot[i][1] : i \in 1..Len(tot)} |->
        tot[CHOOSE i \in 1..Len(tot) : tot[i][1] = k][2]]

\* quenched_concentrations with the first-stage totals taken as if nothing were
\* frozen
quenched_concentrations_free(frozen_df, quenched, ignore_multiplicity, mu, T1, mue) ==
    LET totals(tot) ==
            IF ignore_multiplicity
            THEN strip_total_keys(TotalsDict(tot),
                                  [i \in 1..Len(tot) |-> tot[i][1]], 1)
            ELSE TotalsDict(tot)
    IN  [status |-> "ok",
         qc |-> totals(defect_concentrations_total(mu, T1, mue, NoneV))]

\* Lines 342-352: the concentrations frozen in the second solve.
quenched_concentrations(frozen_df, quenched, ignore_multiplicity, mu, T1, mue) ==
    LET totals(tot) ==
            IF ignore_multiplicity
            THEN strip_total_keys(TotalsDict(tot),
                                  [i \in 1..Len(tot) |-> tot[i][1]], 1)
            ELSE TotalsDict(tot)
        frozen(c1) ==
            IF quenched.tag = "none" THEN [status |-> "ok", qc |-> c1]
            ELSE freeze_species(IF frozen_df.tag # "none" THEN frozen_df.map ELSE <<>>,
                                c1, quenched.items, 1)
    IN  frozen(totals(defect_concentrations_total(mu, T1, mue, frozen_df)))

\* the object's dict, had line 351 taken it without copying: the listed
\* species would be written into it
frozen_after_point_aliased(frozen_df, quenched, r) ==
    IF frozen_df.tag # "none" /\ quenched.tag # "none" /\ "qc" \in DOMAIN r
    THEN FDict(r.qc)
    ELSE frozen_df

\* the object's attribute, had the loop stored the concentrations it froze
\* for the point: self.frozen_defect_concentrations = quenched_concentrations
frozen_after_point_stored(frozen_df, quenched, r) ==
    IF "qc" \in DOMAIN r THEN FDict(r.qc) ELSE frozen_df

\* self.frozen_defect_concentrations after one iteration: line 351 fills a
\* deep copy, so the object's dict is the one the iteration started with.
frozen_after_point(frozen_df, quenched, r) == frozen_df

\* One iteration of the loop of get_quenched_fermi_levels, lines 337-354.
quenched_point(frozen_df, ext_df, quenched, ignore_multiplicity, mu, T1, T2) ==
    LET \* line 353 has solved with the concentrations q.qc: outcome r
        solved(q, r) ==
            IF r.status # "ok" THEN [status |-> r.status, qc |-> q.qc]
            ELSE [status |-> "ok", mue |-> r.mue, qc |-> q.qc]
        \* lines 342-352 have given the concentrations to freeze: outcome q
        frozen(q) ==
            IF q.status # "ok" THEN q
            ELSE IF T2.tag # "num" THEN [status |-> "TypeError", qc |-> q.qc]
            ELSE solved(q, non_equilibrium_fermi_level(FDict(q.qc), mu, ext_df, T2.n))
        \* lines 338-341 have solved at the initial temperature: outcome f
        first(f) ==
            IF f.status # "ok" THEN f
            ELSE frozen(quenched_concentrations(frozen_df, quenched, ignore_multiplicity,
                                                mu, T1.n, f.mue))
    IN  first(solve_fermi_level(frozen_df, ext_df, mu, T1))

\* The locals of a call entering its loop, lines 141-147.
new_frame(res, T) ==
    [T |-> T, i |-> 1,
     partial_pressures |-> reservoir_keys(res),
     defect_concentrations |-> <<>>,
     carrier_concentrations |-> <<>>,
     fermi_levels |-> <<>>,
     conductivities |-> <<>>]

\* series.append(x)
append_point_in_front(series, x) == <<x>> \o series

append_point(series, x) == Append(series, x)

\* An exception raised inside the loop: no method has a try, so it leaves
\* the call and the locals are lost.
skip_failed_point(frame, status) ==
    [pc |-> "loop", frame |-> [frame EXCEPT !.i = @ + 1], ret |-> NoneV]

raise_in_loop(frame, status) ==
    [pc |-> "done", frame |-> NoneV, ret |-> [status |-> status]]

\* ThermoData(thermodata, temperature=..., name=name) of the return statements
returned_thermodata(pairs, temperature, name) == ThermoData(Dict(pairs), temperature, name)

(***************************************************************************)
(* The PressureAnalysis objects, reservoirs and arguments of the model.    *)
(***************************************************************************)
MaxPoints == 2

\* The points <<pressure, mu>> the reservoirs are made of: the chemical
\* potential grows with the pressure.  A reservoir holds up to MaxPoints of
\* them, in any order, a key at most once.
PointSet == {<<1, 0>>, <<2, 1>>, <<3, 3>>}

PointSeqs ==
    {pts \in SeqsUpTo(PointSet, MaxPoints) :
        \A a, b \in 1..Len(pts) : pts[a][1] = pts[b][1] => a = b}

ReservoirTemperatures == {<<FALSE, NoneV>>, <<TRUE, NoneV>>, <<TRUE, Num(1)>>}

ReservoirSet ==
    {[points |-> pts, has_temperature |-> t[1], temperature |-> t[2]] :
        pts \in PointSeqs, t \in ReservoirTemperatures}

TemperatureArgs == {NoneV, Num(2)}
NameArgs == {Str(<<"A">>)}
OutputArgs == {"all", "total", "stable", "every"}

FrozenArgs == {NoneV, FDict(<<>>), FDict([k \in {S_Vac_Na} |-> 2])}
S_Sub_K == <<"S", "u", "b", "_", "K">>
ExternalArgs == {<<>>, <<[name |-> S_Sub_K, charge |-> 1, conc |-> 8]>>}

SweepMobilities ==
    {[k \in {S_holes, S_electrons, S_Vac_Na, S_Int_O} |-> 1],
     [k \in {S_holes, S_electrons, S_Vac_Na} |-> 1],
     [k \in {S_holes, S_electrons, S_Vac_Na_mult2, S_Int_O_mult1} |-> 1]}

QuenchedArgs ==
    {NoneV, Lst(<<S_Vac_Na>>), Lst(<<S_Vac_Na_mult2>>),
     Lst(<<S_Int_O_mult1, S_Vac_Na_mult2>>),
     Lst(<<S_Vac_Na_mult2, S_Vac_Na_mult2>>)}

\* PressureAnalysis(defects_analysis, bulk_dos, frozen_defect_concentrations,
\* external_defects)
InitSweep ==
    /\ \E f \in FrozenArgs, x \in ExternalArgs :
          /\ pa_init = [frozen_defect_concentrations |-> f, external_defects |-> x]
          /\ frozen_defect_concentrations = init_frozen(f)
          /\ external_defects = init_external(x)
    /\ quenched_species = NoneV
    /\ pa_call = NoneV
    /\ pa_pc = "idle"
    /\ pa_frame = NoneV
    /\ pa_solves = <<>>
    /\ pa_ret = NoneV
    /\ IdleData
    /\ mobilities = NoneV
    /\ cnd_args = NoneV
    /\ cnd_ret = NoneV
    /\ IdleDataset
    /\ IdleSchemes
    /\ IdleAnalysis
    /\ IdleDelta

PaObject == <<pa_init, frozen_defect_concentrations, external_defects>>

\* Lines 134-147, 205-217 and 259-270: the call resolves its temperature and
\* enters the loop, or raises.
EnterLoop(res, temperature) ==
    LET r == resolve_temperature(temperature, res)
    IN  IF r.status = "ok"
        THEN /\ pa_pc' = "loop"
             /\ pa_frame' = new_frame(res, r.T)
             /\ pa_ret' = NoneV
        ELSE /\ pa_pc' = "done"
             /\ pa_frame' = NoneV
             /\ pa_ret' = [status |-> r.status]

\* The outcome of one iteration: the exception of a failed point, or the
\* frame with the point's values appended.
AfterPoint(r, frame) ==
    IF r.status # "ok"
    THEN LET x == raise_in_loop(pa_frame, r.status)
         IN  /\ pa_pc' = x.pc
             /\ pa_frame' = x.frame
             /\ pa_ret' = x.ret
    ELSE /\ pa_pc' = "loop"
         /\ pa_frame' = frame
         /\ pa_ret' = NoneV

InLoop(method) ==
    /\ pa_pc = "loop"
    /\ pa_call.method = method
    /\ pa_frame.i <= Len(pa_call.reservoirs.points)

AtLoopEnd(method) ==
    /\ pa_pc = "loop"
    /\ pa_call.method = method
    /\ pa_frame.i > Len(pa_call.reservoirs.points)

\* The solve the loop starts at its point: the temperature it is given and
\* the DefectsAnalysis method it calls.
solve_record ==
    [point |-> pa_frame.i, T |-> pa_frame.T,
     solver |-> fermi_solver(frozen_defect_concentrations, external_defects)]

\* The solves of one point of get_quenched_fermi_levels: the first as above, and
\* the dict passed as frozen concentrations to the second (line 353), None
\* when the point did not get that far.
quenched_solve_record(r) ==
    [point |-> pa_frame.i, T |-> pa_frame.T,
     solver |-> fermi_solver(frozen_defect_concentrations, external_defects),
     quenched_concentrations |-> IF "qc" \in DOMAIN r THEN FDict(r.qc) ELSE NoneV]

\* the chemical potentials of the point the loop is at
CurrentMu == pa_call.reservoirs.points[pa_frame.i][2]

Return(r) ==
    /\ pa_pc' = "done"
    /\ pa_frame' = NoneV
    /\ pa_ret' = r
    /\ UNCHANGED <<PaObject, quenched_species, pa_call, pa_solves>>
    /\ UNCHANGED other_than_pa

\* get_concentrations(reservoirs, concentrations_output, temperature, name)
CallGetConcentrations ==
    /\ pa_pc = "idle"
    /\ \E res \in ReservoirSet, out \in OutputArgs, temperature \in TemperatureArgs,
          name \in NameArgs :
          /\ pa_call' = [method |-> "get_concentrations", reservoirs |-> res,
                         concentrations_output |-> out, temperature |-> temperature,
                         name |-> name]
          /\ EnterLoop(res, temperature)
    /\ UNCHANGED <<PaObject, quenched_species, pa_solves>>
    /\ UNCHANGED other_than_pa

PointGetConcentrations ==
    /\ InLoop("get_concentrations")
    /\ pa_solves' = Append(pa_solves, solve_record)
    /\ LET r == concentrations_point(frozen_defect_concentrations, external_defects,
                                     pa_call.concentrations_output, CurrentMu, pa_frame.T)
       IN  AfterPoint(r,
               [pa_frame EXCEPT
                   !.i = @ + 1,
                   !.defect_concentrations = append_point(@, r.conc),
                   !.carrier_concentrations = append_point(@, PyCarriers(r.carriers)),
                   !.fermi_levels = append_point(@, Num(r.mue))])
    /\ UNCHANGED <<PaObject, quenched_species, pa_call>>
    /\ UNCHANGED other_than_pa

ReturnGetConcentrations ==
    /\ AtLoopEnd("get_concentrations")
    /\ Return(returned_thermodata(
           << <<"partial_pressures", pa_frame.partial_pressures>>,
              <<"defect_concentrations", Lst(pa_frame.defect_concentrations)>>,
              <<"carrier_concentrations", Lst(pa_frame.carrier_concentrations)>>,
              <<"fermi_levels", Lst(pa_frame.fermi_levels)>> >>,
           pa_call.temperature, pa_call.name))

\* get_conductivities(reservoirs, mobilities, ignore_multiplicity, temperature, name)
CallGetConductivities ==
    /\ pa_pc = "idle"
    /\ \E res \in ReservoirSet, mob \in SweepMobilities, ign \in BOOLEAN,
          temperature \in TemperatureArgs, name \in NameArgs :
          /\ pa_call' = [method |-> "get_conductivities", reservoirs |-> res,
                         mobilities |-> mob, ignore_multiplicity |-> ign,
                         temperature |-> temperature, name |-> name]
          /\ EnterLoop(res, temperature)
    /\ UNCHANGED <<PaObject, quenched_species, pa_solves>>
    /\ UNCHANGED other_than_pa

PointGetConductivities ==
    /\ InLoop("get_conductivities")
    /\ pa_solves' = Append(pa_solves, solve_record)
    /\ LET r == conductivities_point(frozen_defect_concentrations, external_defects,
                                     pa_call.mobilities, CurrentMu, pa_frame.T)
       IN  AfterPoint(r,
               [pa_frame EXCEPT
                   !.i = @ + 1,
                   !.conductivities = append_point(@, Num(r.sigma))])
    /\ UNCHANGED <<PaObject, quenched_species, pa_call>>
    /\ UNCHANGED other_than_pa

ReturnGetConductivities ==
    /\ AtLoopEnd("get_conductivities")
    /\ Return(returned_thermodata(
           << <<"partial_pressures", pa_frame.partial_pressures>>,
              <<"conductivities", Lst(pa_frame.conductivities)>> >>,
           pa_call.temperature, pa_call.name))

\* get_fermi_levels(reservoirs, temperature, name)
CallGetFermiLevels ==
    /\ pa_pc = "idle"
    /\ \E res \in ReservoirSet, temperature \in TemperatureArgs, name \in NameArgs :
          /\ pa_call' = [method |-> "get_fermi_levels", reservoirs |-> res,
                         temperature |-> temperature, name |-> name]
          /\ EnterLoop(res, temperature)
    /\ UNCHANGED <<PaObject, quenched_species, pa_solves>>
    /\ UNCHANGED other_than_pa

PointGetFermiLevels ==
    /\ InLoop("get_fermi_levels")
    /\ pa_solves' = Append(pa_solves, solve_record)
    /\ LET r == solve_fermi_level(frozen_defect_concentrations, external_defects,
                                  CurrentMu, pa_frame.T)
       IN  AfterPoint(r,
               [pa_frame EXCEPT
                   !.i = @ + 1,
                   !.fermi_levels = append_point(@, Num(r.mue))])
    /\ UNCHANGED <<PaObject, quenched_species, pa_call>>
    /\ UNCHANGED other_than_pa

ReturnGetFermiLevels ==
    /\ AtLoopEnd("get_fermi_levels")
    /\ Return(returned_thermodata(
           << <<"partial_pressures", pa_frame.partial_pressures>>,
              <<"fermi_levels", Lst(pa_frame.fermi_levels)>> >>,
           pa_call.temperature, pa_call.name))

\* get_quenched_fermi_levels(reservoirs, initial_temperature, final_temperature,
\* quenched_species, ignore_multiplicity, name): lines 320-335.  The list
\* passed as quenched_species is the caller's, and lines 332-335 write to it.
\* A temperature of the reservoirs only makes the method print a warning
\* (lines 323-325): the calls are made with reservoirs that have none.
CallGetQuenchedFermiLevels ==
    /\ pa_pc = "idle"
    /\ \E res \in {r \in ReservoirSet : ~r.has_temperature}, T1 \in {Num(1), Num(2)}, T2 \in {Num(1), Num(2)},
          qs \in QuenchedArgs, ign \in BOOLEAN, name \in NameArgs :
          /\ pa_call' = [method |-> "get_quenched_fermi_levels", reservoirs |-> res,
                         initial_temperature |-> T1, final_temperature |-> T2,
                         quenched_species |-> qs, ignore_multiplicity |-> ign,
                         name |-> name]
          /\ quenched_species' = IF ign /\ qs.tag # "none"
                                 THEN Lst(strip_quenched_species(qs.items, qs.items, 1))
                                 ELSE qs
          /\ pa_frame' = new_frame(res, T1)
    /\ pa_pc' = "loop"
    /\ pa_ret' = NoneV
    /\ UNCHANGED <<PaObject, pa_solves>>
    /\ UNCHANGED other_than_pa

PointGetQuenchedFermiLevels ==
    /\ InLoop("get_quenched_fermi_levels")
    /\ \E r \in {quenched_point(frozen_defect_concentrations, external_defects,
                                quenched_species, pa_call.ignore_multiplicity,
                                CurrentMu, pa_call.initial_temperature,
                                pa_call.final_temperature)} :
           /\ pa_solves' = Append(pa_solves, quenched_solve_record(r))
           /\ AfterPoint(r,
               [pa_frame EXCEPT
                   !.i = @ + 1,
                   !.fermi_levels = append_point(@, Num(r.mue))])
           /\ frozen_defect_concentrations' =
                  frozen_after_point(frozen_defect_concentrations, quenched_species, r)
    /\ UNCHANGED <<pa_init, external_defects, quenched_species, pa_call>>
    /\ UNCHANGED other_than_pa

ReturnGetQuenchedFermiLevels ==
    /\ AtLoopEnd("get_quenched_fermi_levels")
    /\ Return(returned_thermodata(
           << <<"partial_pressures", pa_frame.partial_pressures>>,
              <<"fermi_levels", Lst(pa_frame.fermi_levels)>> >>,
           Tup(<<pa_call.initial_temperature, pa_call.final_temperature>>),
           pa_call.name))

\* The caller drops the outcome (and its quenched_species list); the
\* PressureAnalysis object stays.
DiscardResult ==
    /\ pa_pc = "done"
    /\ pa_pc' = "idle"
    /\ pa_call' = NoneV
    /\ pa_ret' = NoneV
    /\ pa_solves' = <<>>
    /\ quenched_species' = NoneV
    /\ UNCHANGED <<PaObject, pa_frame>>
    /\ UNCHANGED other_than_pa

NextSweep ==
    \/ CallGetConcentrations
    \/ PointGetConcentrations
    \/ ReturnGetConcentrations
    \/ CallGetConductivities
    \/ PointGetConductivities
    \/ ReturnGetConductivities
    \/ CallGetFermiLevels
    \/ PointGetFermiLevels
    \/ ReturnGetFermiLevels
    \/ CallGetQuenchedFermiLevels
    \/ PointGetQuenchedFermiLevels
    \/ ReturnGetQuenchedFermiLevels
    \/ DiscardResult

SpecSweep == InitSweep /\ [][NextSweep]_vars

(***************************************************************************)
(* Properties of PressureAnalysis                                          *)
(***************************************************************************)
PaMethods ==
    {"get_concentrations", "get_conductivities", "get_fermi_levels",
     "get_quenched_fermi_levels"}

PaCalled(method) == pa_pc # "idle" /\ pa_call.method = method

PaReturned(method) == PaCalled(method) /\ pa_pc = "done" /\ pa_ret.status = "ok"

PaPoints == pa_call.reservoirs.points

\* the temperature the call solves with
PaResolved ==
    IF pa_call.method = "get_quenched_fermi_levels"
    THEN [status |-> "ok", T |-> pa_call.initial_temperature]
    ELSE resolve_temperature(pa_call.temperature, pa_call.reservoirs)

\* what the chemical potentials of the i-th reservoir point give
PaPointOutcome(i) ==
    LET mu == PaPoints[i][2]
        T == PaResolved.T
    IN  CASE pa_call.method = "get_concentrations" ->
                concentrations_point(frozen_defect_concentrations, external_defects,
                                     pa_call.concentrations_output, mu, T)
          [] pa_call.method = "get_conductivities" ->
                conductivities_point(frozen_defect_concentrations, external_defects,
                                     pa_call.mobilities, mu, T)
          [] pa_call.method = "get_fermi_levels" ->
                solve_fermi_level(frozen_defect_concentrations, external_defects, mu, T)
          [] pa_call.method = "get_quenched_fermi_levels" ->
                quenched_point(frozen_defect_concentrations, external_defects,
                               quenched_species, pa_call.ignore_multiplicity, mu,
                               pa_call.initial_temperature, pa_call.final_temperature)

\* the series of the returned ThermoData
PaSeries(key) == DictGet(pa_ret.obj.data, key).items

PaSeriesNames == DictKeys(pa_ret.obj.data)

\* the series each method documents
PaSeriesOf(method) ==
    CASE method = "get_concentrations" ->
            <<"partial_pressures", "defect_concentrations", "carrier_concentrations",
              "fermi_levels">>
      [] method = "get_conductivities" -> <<"partial_pressures", "conductivities">>
      [] OTHER -> <<"partial_pressures", "fermi_levels">>

PaKeysInOrder == [i \in 1..Len(PaPoints) |-> Num(PaPoints[i][1])]

\* C1: when a sweep over n reservoir points completes, every series of the
\* returned ThermoData has length n, partial_pressures is the reservoir's keys
\* in iteration order, and the i-th element of every series is what the
\* chemical potentials of the i-th point give - for get_concentrations,
\* get_conductivities, get_fermi_levels and get_quenched_fermi_levels.
C1_AlignedSeries ==
    \A method \in PaMethods :
        PaReturned(method) =>
            LET n == Len(PaPoints)
            IN  /\ \A k \in 1..Len(PaSeriesNames) : Len(PaSeries(PaSeriesNames[k])) = n
                /\ PaSeries("partial_pressures") = PaKeysInOrder
                /\ PaSeriesNames = PaSeriesOf(method)
                /\ \A i \in 1..n :
                       LET o == PaPointOutcome(i)
                       IN  /\ o.status = "ok"
                           /\ method = "get_concentrations" =>
                                  /\ PaSeries("defect_concentrations")[i] = o.conc
                                  /\ PaSeries("carrier_concentrations")[i]
                                         = PyCarriers(o.carriers)
                                  /\ PaSeries("fermi_levels")[i] = Num(o.mue)
                           /\ method = "get_conductivities" =>
                                  PaSeries("conductivities")[i] = Num(o.sigma)
                           /\ method \in {"get_fermi_levels", "get_quenched_fermi_levels"} =>
                                  PaSeries("fermi_levels")[i] = Num(o.mue)

\* a completed get_concentrations over two points, keys out of numeric order,
\* whose points differ in every series
C1_Witness ==
    /\ PaReturned("get_concentrations")
    /\ Len(PaPoints) = 2
    /\ PaPoints[1][1] > PaPoints[2][1]
    /\ PaSeries("partial_pressures") = <<Num(PaPoints[1][1]), Num(PaPoints[2][1])>>
    /\ PaSeries("fermi_levels")[1] # PaSeries("fermi_levels")[2]
    /\ PaSeries("defect_concentrations")[1] # PaSeries("defect_concentrations")[2]
    /\ PaSeries("carrier_concentrations")[1] # PaSeries("carrier_concentrations")[2]

C1_WitnessEmpty ==
    /\ PaReturned("get_quenched_fermi_levels")
    /\ Len(PaPoints) = 0
    /\ PaSeries("fermi_levels") = <<>>

C1_WitnessConductivities ==
    /\ PaReturned("get_conductivities")
    /\ Len(PaPoints) = 2
    /\ PaSeries("conductivities")[1] # PaSeries("conductivities")[2]

C1_WitnessQuenched ==
    /\ PaReturned("get_quenched_fermi_levels")
    /\ Len(PaPoints) = 2
    /\ PaSeries("fermi_levels")[1] # PaSeries("fermi_levels")[2]

PaTemperatureMethods == {"get_concentrations", "get_conductivities", "get_fermi_levels"}

\* the reservoirs of the call carry a temperature
PaReservoirTemperature ==
    pa_call.reservoirs.has_temperature /\ pa_call.reservoirs.temperature # NoneV

\* C5: in get_concentrations, get_conductivities and get_fermi_levels every
\* solve runs with the temperature argument if one is given, otherwise with
\* the temperature the reservoirs carry; when there is neither, the call
\* fails with ValueError before any solve.  No solve runs with None.
C5_TemperatureResolution ==
    \A method \in PaTemperatureMethods :
        PaCalled(method) =>
            /\ \A k \in 1..Len(pa_solves) : pa_solves[k].T # NoneV
            /\ pa_call.temperature # NoneV =>
                   \A k \in 1..Len(pa_solves) : pa_solves[k].T = pa_call.temperature
            /\ (pa_call.temperature = NoneV /\ PaReservoirTemperature) =>
                   \A k \in 1..Len(pa_solves) :
                       pa_solves[k].T = pa_call.reservoirs.temperature
            /\ (pa_call.temperature = NoneV /\ ~PaReservoirTemperature) =>
                   /\ pa_solves = <<>>
                   /\ pa_pc = "done"
                   /\ pa_ret = [status |-> "ValueError"]

\* C5 on the reservoirs whose temperature attribute, when there is one, is
\* a number: the resolution is as stated.
C5_WithNumericAttribute ==
    \A method \in PaTemperatureMethods :
        (/\ PaCalled(method)
         /\ pa_call.reservoirs.has_temperature => pa_call.reservoirs.temperature # NoneV)
        => C5_TemperatureResolution

\* a solve that ran with None
C5_SolveWithNone ==
    /\ PaCalled("get_fermi_levels")
    /\ pa_call.temperature = NoneV
    /\ pa_call.reservoirs.has_temperature
    /\ pa_call.reservoirs.temperature = NoneV
    /\ Len(pa_solves) = 1
    /\ pa_solves[1].T = NoneV
    /\ pa_pc = "done"
    /\ pa_ret = [status |-> "TypeError"]

PaOutputModes == {"all", "total", "stable"}

\* C6: get_concentrations with a concentrations_output other than "all",
\* "total" or "stable" fails at call time, for every reservoir mapping, the
\* empty one included: no Fermi-level solve is performed and no ThermoData is
\* returned.
C6_InvalidOutputMode ==
    (/\ PaCalled("get_concentrations")
     /\ pa_call.concentrations_output \notin PaOutputModes)
    => /\ pa_solves = <<>>
       /\ pa_pc = "done"
       /\ pa_ret = [status |-> "ValueError"]

\* the invalid mode raised after the solve of the first point
C6_RaisedAfterSolve ==
    /\ PaCalled("get_concentrations")
    /\ pa_call.concentrations_output \notin PaOutputModes
    /\ Len(pa_solves) = 1
    /\ pa_pc = "done"
    /\ pa_ret = [status |-> "ValueError"]

\* the invalid mode accepted on an empty mapping
C6_ReturnedOnEmpty ==
    /\ PaReturned("get_concentrations")
    /\ pa_call.concentrations_output \notin PaOutputModes
    /\ PaPoints = <<>>
    /\ PaSeries("defect_concentrations") = <<>>

\* the call resolved a temperature and entered its loop
PaEntered == pa_pc # "idle" /\ PaResolved.status = "ok"

\* k is the first point whose solve fails
PaFirstFailure(k) ==
    /\ k \in 1..Len(PaPoints)
    /\ PaPointOutcome(k).status # "ok"
    /\ \A j \in 1..(k - 1) : PaPointOutcome(j).status = "ok"

\* C7: when the solve of point k fails, the call ends there with that error:
\* no later point is processed, no ThermoData is returned and the series
\* collected up to k are not handed to the caller.
C7_SweepAborts ==
    PaEntered =>
        /\ Len(pa_solves) <= Len(PaPoints)
        /\ \A j \in 1..Len(pa_solves) :
               /\ pa_solves[j].point = j
               /\ PaPointOutcome(j).status # "ok" =>
                      /\ Len(pa_solves) = j
                      /\ pa_pc = "done"
                      /\ pa_ret = [status |-> PaPointOutcome(j).status]
                      /\ pa_frame = NoneV
        /\ (pa_pc = "done" /\ pa_ret.status = "ok") =>
               /\ Len(pa_solves) = Len(PaPoints)
               /\ \A j \in 1..Len(PaPoints) : PaPointOutcome(j).status = "ok"

\* a sweep whose second point has no Fermi level, after a first point solved
C7_Witness ==
    /\ PaCalled("get_concentrations")
    /\ PaEntered
    /\ Len(PaPoints) = 2
    /\ PaPointOutcome(1).status = "ok"
    /\ PaPointOutcome(2).status = "FermiLevelNotFoundError"
    /\ Len(pa_solves) = 2
    /\ pa_pc = "done"
    /\ pa_ret = [status |-> "FermiLevelNotFoundError"]
    /\ pa_frame = NoneV

\* a sweep of two points stopped at the first
C7_WitnessFirstPoint ==
    /\ PaEntered
    /\ Len(PaPoints) = 2
    /\ PaFirstFailure(1)
    /\ Len(pa_solves) = 1
    /\ pa_pc = "done"

\* a conductivity sweep of two points stopped by a missing mobility
C7_WitnessMobility ==
    /\ PaCalled("get_conductivities")
    /\ PaEntered
    /\ Len(PaPoints) = 2
    /\ PaFirstFailure(1)
    /\ Len(pa_solves) = 1
    /\ pa_pc = "done"
    /\ pa_ret = [status |-> "KeyError"]

\* the PressureAnalysis was built with frozen concentrations or external defects
PaConfigured ==
    \/ /\ pa_init.frozen_defect_concentrations.tag # "none"
       /\ DOMAIN pa_init.frozen_defect_concentrations.map # {}
    \/ Len(pa_init.external_defects) > 0

\* C11: at every point of a sweep (the first stage of the quenched one
\* included) the Fermi level comes from non_equilibrium_fermi_level exactly
\* when the PressureAnalysis was built with a non-empty frozen-concentration
\* dict or a non-empty external-defect list, and from equilibrium_fermi_level
\* otherwise; the choice is the same at every point of the sweep.
C11_SolverChoice ==
    pa_pc # "idle" =>
        \A j \in 1..Len(pa_solves) :
            /\ pa_solves[j].solver = (IF PaConfigured THEN "non_equilibrium_fermi_level"
                                      ELSE "equilibrium_fermi_level")
            /\ pa_solves[j].solver = pa_solves[1].solver

\* two points solved with the non-equilibrium solver for external defects alone
C11_Witness ==
    /\ PaCalled("get_conductivities")
    /\ pa_init.frozen_defect_concentrations = FDict(<<>>)
    /\ Len(pa_init.external_defects) = 1
    /\ Len(pa_solves) = 2
    /\ pa_solves[1].solver = "non_equilibrium_fermi_level"
    /\ pa_solves[2].solver = "non_equilibrium_fermi_level"

\* two points solved with the equilibrium solver: an empty dict, no external defect
C11_WitnessEquilibrium ==
    /\ PaCalled("get_quenched_fermi_levels")
    /\ pa_init.frozen_defect_concentrations = FDict(<<>>)
    /\ pa_init.external_defects = <<>>
    /\ Len(pa_solves) = 2
    /\ pa_solves[2].solver = "equilibrium_fermi_level"

\* the name a species is frozen under in a quenched call
PaQuenchKey(name) ==
    IF pa_call.ignore_multiplicity THEN StrBefore(name, S__mult) ELSE name

PaSpecies == {da_entries[i].name : i \in 1..Len(da_entries)}

\* the total concentration of the species frozen under key k, from the
\* first-stage solve of point j at initial_temperature
PaFirstStageTotal(j, k) ==
    LET mu == PaPoints[j][2]
        T1 == pa_call.initial_temperature
        f == solve_fermi_level(frozen_defect_concentrations, external_defects, mu, T1)
    IN  SumTo([i \in 1..Len(da_entries) |->
                  IF PaQuenchKey(da_entries[i].name) = k
                  THEN entry_concentration(i, mu, T1.n, f.mue,
                                           frozen_by_species(frozen_defect_concentrations))
                  ELSE 0],
              Len(da_entries))

\* the names listed in the quenched_species argument
PaListed ==
    {PaQuenchKey(pa_call.quenched_species.items[i]) :
        i \in 1..Len(pa_call.quenched_species.items)}

PaClassFrozen ==
    IF frozen_defect_concentrations.tag = "none" THEN <<>>
    ELSE frozen_defect_concentrations.map

C12_WitnessListed ==
    /\ PaCalled("get_quenched_fermi_levels")
    /\ ~pa_call.ignore_multiplicity
    /\ pa_call.quenched_species = Lst(<<S_Vac_Na_mult2>>)
    /\ frozen_defect_concentrations = NoneV
    /\ Len(pa_solves) >= 1
    /\ pa_solves[1].quenched_concentrations # NoneV
    /\ DOMAIN pa_solves[1].quenched_concentrations.map = {S_Vac_Na_mult2}
    /\ pa_solves[1].quenched_concentrations.map[S_Vac_Na_mult2] > 0

\* no quenched_species: every species frozen
C12_WitnessAll ==
    /\ PaCalled("get_quenched_fermi_levels")
    /\ pa_call.quenched_species = NoneV
    /\ pa_call.ignore_multiplicity
    /\ Len(pa_solves) = 2
    /\ pa_solves[2].quenched_concentrations # NoneV
    /\ DOMAIN pa_solves[2].quenched_concentrations.map = {S_Int_O, S_Vac_Na}
    /\ pa_solves[2].quenched_concentrations.map[S_Vac_Na] > 0

\* a quenched call that freezes every species and does not change the temperature
PaIdleQuench ==
    /\ PaCalled("get_quenched_fermi_levels")
    /\ pa_call.quenched_species = NoneV
    /\ pa_call.final_temperature = pa_call.initial_temperature

\* what get_fermi_levels gives for point j at initial_temperature
PaUnquenched(j) ==
    solve_fermi_level(frozen_defect_concentrations, external_defects,
                      PaPoints[j][2], pa_call.initial_temperature)

\* the unquenched solve of point j ends on a grid point where the net charge
\* is exactly zero
PaExact(j) ==
    /\ PaUnquenched(j).status = "ok"
    /\ charge_neutrality_residual(PaPoints[j][2], pa_call.initial_temperature.n,
                                  PaUnquenched(j).mue,
                                  frozen_by_species(frozen_defect_concentrations),
                                  external_defects) = 0

C13_Witness ==
    /\ PaIdleQuench
    /\ PaReturned("get_quenched_fermi_levels")
    /\ Len(pa_solves) >= 1
    /\ PaExact(1)
    /\ pa_solves[1].quenched_concentrations # NoneV
    /\ \E k \in DOMAIN pa_solves[1].quenched_concentrations.map :
           pa_solves[1].quenched_concentrations.map[k] > 0

C13_WitnessMultiplicity ==
    /\ C13_Witness
    /\ ~pa_call.ignore_multiplicity

\* the quenched_species list the loop of a quenched call works with
PaQuenchedList ==
    IF pa_call.ignore_multiplicity /\ pa_call.quenched_species.tag # "none"
    THEN Lst(strip_quenched_species(pa_call.quenched_species.items,
                                    pa_call.quenched_species.items, 1))
    ELSE pa_call.quenched_species

\* What a point of chemical potentials mu gives in the call under way, from
\* mu, the temperatures and arguments of the call and the configuration the
\* PressureAnalysis was constructed with, and from nothing else.
PaPointAlone(mu) ==
    LET frozen_df == init_frozen(pa_init.frozen_defect_concentrations)
        ext_df == init_external(pa_init.external_defects)
        T == PaResolved.T
    IN  CASE pa_call.method = "get_concentrations" ->
                concentrations_point(frozen_df, ext_df, pa_call.concentrations_output,
                                     mu, T)
          [] pa_call.method = "get_conductivities" ->
                conductivities_point(frozen_df, ext_df, pa_call.mobilities, mu, T)
          [] pa_call.method = "get_fermi_levels" ->
                solve_fermi_level(frozen_df, ext_df, mu, T)
          [] pa_call.method = "get_quenched_fermi_levels" ->
                quenched_point(frozen_df, ext_df, PaQuenchedList,
                               pa_call.ignore_multiplicity, mu,
                               pa_call.initial_temperature, pa_call.final_temperature)

\* the values collected for the j-th point agree with outcome o
PaCollected(j, o, dconc, cconc, mues, sigmas) ==
    /\ o.status = "ok"
    /\ pa_call.method = "get_concentrations" =>
           /\ dconc[j] = o.conc
           /\ cconc[j] = PyCarriers(o.carriers)
           /\ mues[j] = Num(o.mue)
    /\ pa_call.method = "get_conductivities" => sigmas[j] = Num(o.sigma)
    /\ pa_call.method \in {"get_fermi_levels", "get_quenched_fermi_levels"} =>
           mues[j] = Num(o.mue)

\* C14: the values a sweep collects and reports for a point depend only on the
\* chemical potentials of that point, the temperature(s) and the configuration
\* given to the constructor - not on the position of the point, on the other
\* points of the reservoir or on the points processed before it; processing a
\* point leaves the configuration as constructed.
C14_IndependentPoints ==
    PaEntered =>
        /\ frozen_defect_concentrations = init_frozen(pa_init.frozen_defect_concentrations)
        /\ external_defects = init_external(pa_init.external_defects)
        /\ pa_pc = "loop" =>
               \A j \in 1..(pa_frame.i - 1) :
                   PaCollected(j, PaPointAlone(PaPoints[j][2]),
                               pa_frame.defect_concentrations,
                               pa_frame.carrier_concentrations,
                               pa_frame.fermi_levels, pa_frame.conductivities)
        /\ (pa_pc = "done" /\ pa_ret.status = "ok") =>
               \A j \in 1..Len(PaPoints) :
                   PaCollected(j, PaPointAlone(PaPoints[j][2]),
                               IF pa_call.method = "get_concentrations"
                               THEN PaSeries("defect_concentrations") ELSE <<>>,
                               IF pa_call.method = "get_concentrations"
                               THEN PaSeries("carrier_concentrations") ELSE <<>>,
                               IF pa_call.method # "get_conductivities"
                               THEN PaSeries("fermi_levels") ELSE <<>>,
                               IF pa_call.method = "get_conductivities"
                               THEN PaSeries("conductivities") ELSE <<>>)

\* a quenched sweep over two points, the key of the first above the key of the
\* second, with a species listed on top of a configured frozen dict: the two
\* points get different Fermi levels
C14_Witness ==
    /\ PaReturned("get_quenched_fermi_levels")
    /\ pa_call.quenched_species # NoneV
    /\ frozen_defect_concentrations # NoneV
    /\ Len(PaPoints) = 2
    /\ PaPoints[1][1] > PaPoints[2][1]
    /\ PaSeries("fermi_levels")[1] # PaSeries("fermi_levels")[2]

\* the same two points swept in the other order
C14_WitnessPermuted ==
    /\ PaReturned("get_quenched_fermi_levels")
    /\ pa_call.quenched_species # NoneV
    /\ frozen_defect_concentrations # NoneV
    /\ Len(PaPoints) = 2
    /\ PaPoints[1][1] < PaPoints[2][1]
    /\ PaSeries("fermi_levels")[1] # PaSeries("fermi_levels")[2]

\* a sweep of concentrations stopped between its two points
C14_WitnessInLoop ==
    /\ PaCalled("get_concentrations")
    /\ pa_pc = "loop"
    /\ Len(PaPoints) = 2
    /\ pa_frame.i = 2
    /\ Len(pa_frame.fermi_levels) = 1

\* what the mobility lookups of get_conductivity give for the j-th point
\* with the names taken as ignore_multiplicity says
PaConductivity(j, ignore_multiplicity) ==
    LET mu == PaPoints[j][2]
        T == PaResolved.T
        f == solve_fermi_level(frozen_defect_concentrations, external_defects, mu, T)
    IN  get_conductivity(pa_call.mobilities, carrier_concentrations(T.n, f.mue),
                         defect_concentrations(mu, T.n, f.mue,
                                               frozen_defect_concentrations),
                         ignore_multiplicity)

\* C15: get_conductivities honours ignore_multiplicity: at every point whose
\* Fermi level is found the mobilities are looked up under the defect names
\* without the multiplicity part when it is True and under the full names when
\* it is False, so the point ends as get_conductivity with that argument ends.
C15_HonoursIgnoreMultiplicity ==
    (PaCalled("get_conductivities") /\ PaEntered) =>
        \A j \in 1..Len(pa_solves) :
            solve_fermi_level(frozen_defect_concentrations, external_defects,
                              PaPoints[j][2], PaResolved.T).status = "ok" =>
                LET o == PaConductivity(j, pa_call.ignore_multiplicity)
                IN  /\ o.status # "ok" =>
                           /\ pa_pc = "done"
                           /\ pa_ret = [status |-> o.status]
                    /\ (pa_pc = "done" /\ pa_ret.status = "ok") =>
                           /\ o.status = "ok"
                           /\ PaSeries("conductivities")[j] = Num(o.sigma)

\* ignore_multiplicity = False with mobilities keyed by the full names: the
\* call ends in KeyError at its first point
C15_FullNamesKeyError ==
    /\ PaCalled("get_conductivities")
    /\ ~pa_call.ignore_multiplicity
    /\ DOMAIN pa_call.mobilities = {S_holes, S_electrons, S_Vac_Na_mult2, S_Int_O_mult1}
    /\ Len(pa_solves) = 1
    /\ pa_pc = "done"
    /\ pa_ret = [status |-> "KeyError"]
    /\ PaConductivity(1, FALSE).status = "ok"

\* ignore_multiplicity = False with mobilities keyed by the names without the
\* multiplicity part: the call returns conductivities
C15_StrippedNamesReturned ==
    /\ PaReturned("get_conductivities")
    /\ ~pa_call.ignore_multiplicity
    /\ DOMAIN pa_call.mobilities = {S_holes, S_electrons, S_Vac_Na, S_Int_O}
    /\ Len(PaPoints) >= 1
    /\ PaConductivity(1, FALSE).status = "KeyError"

\* what the code does whatever the argument: the names are looked up without
\* the multiplicity part
C15_AlwaysIgnored ==
    (PaCalled("get_conductivities") /\ PaEntered) =>
        \A j \in 1..Len(pa_solves) :
            solve_fermi_level(frozen_defect_concentrations, external_defects,
                              PaPoints[j][2], PaResolved.T).status = "ok" =>
                LET o == PaConductivity(j, TRUE)
                IN  /\ o.status # "ok" =>
                           /\ pa_pc = "done"
                           /\ pa_ret = [status |-> o.status]
                    /\ (pa_pc = "done" /\ pa_ret.status = "ok") =>
                           /\ o.status = "ok"
                           /\ PaSeries("conductivities")[j] = Num(o.sigma)

(***************************************************************************)
(* Dataset (datasets.py)                                                   *)
(***************************************************************************)
\* Python truthiness of None, a str and a list
py_truthy(v) ==
    CASE v.tag = "none" -> FALSE
      [] v.tag = "str" -> Len(v.s) > 0
      [] v.tag = "list" -> Len(v.items) > 0
      [] OTHER -> TRUE

\* `x in container` for a str x: membership in a list, substring of a str
py_in(x, container) ==
    IF container.tag = "str" THEN StrContains(container.s, x)
    ELSE \E i \in 1..Len(container.items) : container.items[i] = Str(x)

\* `a and b` on str operands: a when a is empty, b otherwise
py_and(a, b) == IF a = "" THEN a ELSE b

RECURSIVE list_remove(_, _)
\* list.remove(x): the list without its first element equal to x
list_remove(items, x) ==
    IF Len(items) = 0 THEN <<>>
    ELSE IF items[1] = x THEN Tail(items)
    ELSE <<items[1]>> \o list_remove(Tail(items), x)

RECURSIVE StrRemove(_, _, _)
\* s.replace(old, '') from position i on
StrRemove(s, old, i) ==
    IF i > Len(s) THEN <<>>
    ELSE IF Len(old) > 0 /\ StartsWithAt(s, old, i) THEN StrRemove(s, old, i + Len(old))
    ELSE <<s[i]>> \o StrRemove(s, old, i + 1)

RECURSIVE CommonPrefix(_, _)
CommonPrefix(a, b) ==
    IF Len(a) = 0 \/ Len(b) = 0 \/ a[1] # b[1] THEN <<>>
    ELSE <<a[1]>> \o CommonPrefix(Tail(a), Tail(b))

\* os.path.commonpath([a, b]) of two absolute paths
commonpath(a, b) == StrJoin("/", CommonPrefix(StrSplit(a, "/"), StrSplit(b, "/")))

\* os.path.join(a, b) for a relative b
path_join(a, b) == IF Len(b) = 0 THEN a \o <<"/">> ELSE a \o <<"/">> \o b

\* os.path.basename
basename(p) == LET t == StrSplit(p, "/") IN t[Len(t)]

\* the directory of the dataset and what it can hold
DatasetPath == <<"/", "d">>
S_A == <<"A">>
S_B == <<"B">>
S_x == <<"x">>
S_y == <<"y">>
S_a == <<"a">>
S_b == <<"b">>
S_ab == <<"a", "b">>

\* the sub-directories below the dataset directory, in the order os.walk
\* visits them: (parent, name)
SubDirs == << <<DatasetPath, S_A>>, <<path_join(DatasetPath, S_A), S_x>>,
              <<DatasetPath, S_B>>, <<path_join(DatasetPath, S_B), S_y>> >>

\* how many of them exist
MaxDirs == 3

\* the file lists a directory is given
FileLists ==
    {<<>>,
     <<"INCAR", "KPOINTS", "POSCAR", "POTCAR", "job.sh">>,
     <<"POTCAR", "job.sh">>,
     <<"INCAR", "KPOINTS", "POSCAR", "job.sh">>,
     <<"INCAR", "KPOINTS", "POSCAR", "POTCAR">>}

\* what os.walk yields: the dataset directory, then each sub-directory that
\* exists; dirs are the names of the sub-directories one level below
walk_of(files) ==
    LET n == IF MaxDirs < Len(SubDirs) THEN MaxDirs ELSE Len(SubDirs)
        subdirs(p) == SelectSeq([k \in 1..n |-> SubDirs[k]], LAMBDA d : d[1] = p)
        names(p) == [k \in 1..Len(subdirs(p)) |-> subdirs(p)[k][2]]
    IN  <<[root |-> DatasetPath, dirs |-> names(DatasetPath), files |-> <<>>]>>
        \o [k \in 1..n |->
               [root |-> path_join(SubDirs[k][1], SubDirs[k][2]),
                dirs |-> names(path_join(SubDirs[k][1], SubDirs[k][2])),
                files |-> files[k]]]

WalkSet ==
    LET n == IF MaxDirs < Len(SubDirs) THEN MaxDirs ELSE Len(SubDirs)
    IN  {walk_of(f) : f \in [1..n -> FileLists]}

\* x in files
in_files(x, files) == \E i \in 1..Len(files) : files[i] = x

\* The file whose presence line 66 tests: Python evaluates
\* ('INCAR' and 'KPOINTS' and 'POSCAR' and 'POTCAR') before `in`.
tested_input_file == py_and(py_and(py_and("INCAR", "KPOINTS"), "POSCAR"), "POTCAR")

\* VaspJob.from_directory(root, job_script_filename): a job for the
\* directory, named after it; a loader that insists on its input files
\* raises when one is missing.
vasp_job_from_directory(root, files, job_script_filename, strict) ==
    IF strict /\ \E f \in {"INCAR", "KPOINTS", "POSCAR", "POTCAR"} : ~in_files(f, files)
    THEN [status |-> "FileNotFoundError"]
    ELSE [status |-> "ok",
          job |-> [tag |-> "job", name |-> basename(root), path |-> root,
                   job_script_filename |-> job_script_filename,
                   group |-> NoneV, nodes |-> NoneV, converged |-> FALSE]]

RECURSIVE walk_jobs(_, _, _, _, _)
\* The loop of from_directory, lines 64-69, from entry i on.
walk_jobs(walk, job_script_filename, strict, i, jobs) ==
    IF i > Len(walk) THEN [status |-> "ok", jobs |-> jobs]
    ELSE IF /\ walk[i].files # <<>>
            /\ in_files(job_script_filename, walk[i].files)
            /\ in_files(tested_input_file, walk[i].files)
         THEN LET r == vasp_job_from_directory(walk[i].root, walk[i].files,
                                               job_script_filename, strict)
              IN  IF r.status # "ok" THEN r
                  ELSE walk_jobs(walk, job_script_filename, strict, i + 1,
                                 Append(jobs, r.job))
         ELSE walk_jobs(walk, job_script_filename, strict, i + 1, jobs)

\* Dataset.groups, lines 71-74: the sub-directories of the dataset directory
dataset_groups(walk) == walk[1].dirs

\* One pass of the inner loop of _group_jobs (lines 88-95) over a job.
group_job(path, group, job) ==
    IF StrContains(job.path, group)
    THEN [job EXCEPT
             !.group = Str(group),
             !.nodes = Str(StrRemove(job.path,
                                     commonpath(path_join(path, group), job.path), 1))]
    ELSE job

RECURSIVE group_jobs(_, _, _, _)
\* Dataset._group_jobs, lines 77-95, from group g on
group_jobs(path, groups, jobs, g) ==
    IF g > Len(groups) THEN jobs
    ELSE group_jobs(path, groups,
                    [k \in 1..Len(jobs) |-> group_job(path, groups[g], jobs[k])],
                    g + 1)

\* Dataset(path, jobs=jobs), lines 26-30
new_dataset(walk, path, jobs) ==
    [path |-> path,
     jobs |-> IF py_truthy(jobs)
              THEN Lst(group_jobs(path, dataset_groups(walk), jobs.items, 1))
              ELSE jobs]

\* Dataset.from_directory(path, job_script_filename), lines 48-69
from_directory(walk, path, job_script_filename, strict) ==
    LET r == walk_jobs(walk, job_script_filename, strict, 1, <<>>)
    IN  IF r.status # "ok" THEN r
        ELSE [status |-> "ok", ds |-> new_dataset(walk, path, Lst(r.jobs))]

\* the jobs a Dataset is constructed with
JobPool ==
    <<[tag |-> "job", name |-> S_a, path |-> path_join(DatasetPath, S_A),
       job_script_filename |-> "job.sh", group |-> NoneV, nodes |-> NoneV,
       converged |-> TRUE],
      [tag |-> "job", name |-> S_b, path |-> path_join(path_join(DatasetPath, S_A), S_x),
       job_script_filename |-> "job.sh", group |-> NoneV, nodes |-> NoneV,
       converged |-> FALSE],
      [tag |-> "job", name |-> S_a, path |-> path_join(DatasetPath, S_B),
       job_script_filename |-> "job.sh", group |-> NoneV, nodes |-> NoneV,
       converged |-> FALSE]>>

\* the longest list of jobs a Dataset is constructed with
MaxJobs == 3

JobLists ==
    {NoneV} \cup
    UNION {{Lst([k \in 1..n |-> JobPool[f[k]]]) : f \in [1..n -> 1..Len(JobPool)]} :
              n \in 0..MaxJobs}

NamesArgs == {NoneV, Lst(<<>>), Lst(<<Str(S_a)>>), Lst(<<Str(S_a), Str(S_b)>>), Str(S_ab)}
GroupsArgs == {NoneV, Lst(<<>>), Lst(<<Str(S_A)>>)}
CommonNodeArgs == {NoneV, Str(<<>>), Str(S_x)}
KwargsArgs == {<<>>, << <<"is_converged", TRUE>> >>, << <<"is_converged", FALSE>> >>}

\* getattr(j, feature)() for the methods of the jobs of the model
job_feature(j, feature) == j.converged

\* One filter pass of select_jobs: every job of jobs failing keep is removed
\* from sel_jobs, in the order of jobs.
\* keep[i] tells whether jobs[i] passes.
RECURSIVE remove_failing(_, _, _, _)
remove_failing(sel_jobs, jobs, keep, i) ==
    IF i > Len(jobs) THEN sel_jobs
    ELSE remove_failing(IF keep[i] THEN sel_jobs ELSE list_remove(sel_jobs, jobs[i]),
                        jobs, keep, i + 1)

RECURSIVE filter_features(_, _, _)
\* the loop over kwargs, lines 250-255
filter_features(sel_jobs, kwargs, f) ==
    IF f > Len(kwargs) THEN sel_jobs
    ELSE filter_features(
             remove_failing(sel_jobs, sel_jobs,
                            [i \in 1..Len(sel_jobs) |->
                                job_feature(sel_jobs[i], kwargs[f][1]) = kwargs[f][2]], 1),
             kwargs, f + 1)

\* select_jobs that hands back the list also when it holds one job
select_jobs_as_list(self_jobs, names, groups, common_node, kwargs) ==
    IF self_jobs.tag = "none" THEN [status |-> "AttributeError"]
    ELSE LET s0 == self_jobs.items
             s1 == remove_failing(s0, s0,
                       [i \in 1..Len(s0) |->
                           ~py_truthy(names) \/ py_in(s0[i].name, names)], 1)
             s2 == remove_failing(s1, s1,
                       [i \in 1..Len(s1) |->
                           ~py_truthy(groups)
                           \/ (s1[i].group.tag = "str" /\ py_in(s1[i].group.s, groups))], 1)
             s3 == remove_failing(s2, s2,
                       [i \in 1..Len(s2) |->
                           ~py_truthy(common_node)
                           \/ StrContains(s2[i].nodes.s, common_node.s)], 1)
             s4 == filter_features(s3, kwargs, 1)
         IN  [status |-> "ok", value |-> Lst(s4)]

\* Dataset.select_jobs(names, groups, common_node, **kwargs), lines 207-260
select_jobs(self_jobs, names, groups, common_node, kwargs) ==
    IF self_jobs.tag = "none" THEN [status |-> "AttributeError"]
    ELSE LET s0 == self_jobs.items
             s1 == remove_failing(s0, s0,
                       [i \in 1..Len(s0) |->
                           ~py_truthy(names) \/ py_in(s0[i].name, names)], 1)
             s2 == remove_failing(s1, s1,
                       [i \in 1..Len(s1) |->
                           ~py_truthy(groups)
                           \/ (s1[i].group.tag = "str" /\ py_in(s1[i].group.s, groups))], 1)
             s3 == remove_failing(s2, s2,
                       [i \in 1..Len(s2) |->
                           ~py_truthy(common_node)
                           \/ StrContains(s2[i].nodes.s, common_node.s)], 1)
             s4 == filter_features(s3, kwargs, 1)
         IN  [status |-> "ok", value |-> IF Len(s4) = 1 THEN s4[1] ELSE Lst(s4)]

\* a directory tree with nothing in its directories
EmptyWalk ==
    walk_of([k \in 1..(IF MaxDirs < Len(SubDirs) THEN MaxDirs ELSE Len(SubDirs)) |-> <<>>])

InitDirectory ==
    /\ ds_walk \in WalkSet
    /\ ds = NoneV
    /\ ds_op = NoneV
    /\ ds_ret = NoneV
    /\ mobilities = NoneV
    /\ cnd_args = NoneV
    /\ cnd_ret = NoneV
    /\ IdleData
    /\ IdlePressure
    /\ IdleSchemes
    /\ IdleAnalysis
    /\ IdleDelta

InitDataset ==
    /\ ds_walk = EmptyWalk
    /\ ds = NoneV
    /\ ds_op = NoneV
    /\ ds_ret = NoneV
    /\ mobilities = NoneV
    /\ cnd_args = NoneV
    /\ cnd_ret = NoneV
    /\ IdleData
    /\ IdlePressure
    /\ IdleSchemes
    /\ IdleAnalysis
    /\ IdleDelta

\* Dataset.from_directory(path): the loader of the jobs may or may not insist
\* on its input files
FromDirectory ==
    /\ ds = NoneV
    /\ ds_op = NoneV
    /\ \E strict \in BOOLEAN :
          LET r == from_directory(ds_walk, DatasetPath, "job.sh", strict)
          IN  /\ ds_op' = [op |-> "from_directory", job_script_filename |-> "job.sh",
                           strict |-> strict]
              /\ ds' = IF r.status = "ok" THEN r.ds ELSE NoneV
              /\ ds_ret' = [status |-> r.status]
    /\ UNCHANGED ds_walk
    /\ UNCHANGED other_than_ds

\* Dataset(path, jobs=jobs)
NewDataset ==
    /\ ds = NoneV
    /\ ds_op = NoneV
    /\ \E jobs \in JobLists :
          /\ ds_op' = [op |-> "Dataset", jobs |-> jobs]
          /\ ds' = new_dataset(ds_walk, DatasetPath, jobs)
    /\ ds_ret' = [status |-> "ok"]
    /\ UNCHANGED ds_walk
    /\ UNCHANGED other_than_ds

\* ds.select_jobs(names, groups, common_node, **kwargs)
SelectJobs ==
    /\ ds # NoneV
    /\ ds_op.op = "Dataset"
    /\ \E names \in NamesArgs, groups \in GroupsArgs, common_node \in CommonNodeArgs,
          kwargs \in KwargsArgs :
          /\ ds_op' = [op |-> "select_jobs", names |-> names, groups |-> groups,
                       common_node |-> common_node, kwargs |-> kwargs, before |-> ds]
          /\ ds_ret' = select_jobs(ds.jobs, names, groups, common_node, kwargs)
    /\ UNCHANGED <<ds_walk, ds>>
    /\ UNCHANGED other_than_ds

\* the Dataset and the outcome are dropped
DropDataset ==
    /\ ds_op # NoneV
    /\ ds' = NoneV
    /\ ds_op' = NoneV
    /\ ds_ret' = NoneV
    /\ UNCHANGED ds_walk
    /\ UNCHANGED other_than_ds

\* os.path.join(a, b): an absolute b replaces a, and no separator is added
\* to an empty a or to one that ends with it
os_path_join(a, b) ==
    IF Len(b) > 0 /\ b[1] = "/" THEN b
    ELSE IF Len(a) = 0 \/ a[Len(a)] = "/" THEN a \o b
    ELSE a \o <<"/">> \o b

\* the job class called by create_job, lines 129-130, with the attributes set
\* on the job at lines 131-132
created_job(path, group, nodes, job_script_filename, name) ==
    [tag |-> "job", name |-> name, path |-> path,
     job_script_filename |-> job_script_filename,
     group |-> Str(group), nodes |-> Str(nodes), converged |-> FALSE]

\* create_job that starts a new list whatever the dataset holds
create_job_alone(self, group, nodes, job_script_filename, name) ==
    [self EXCEPT !.jobs =
        Lst(<<created_job(os_path_join(os_path_join(self.path, group), nodes),
                          group, nodes, job_script_filename, name)>>)]

\* Dataset.create_job(job_class, group, nodes, ...), lines 98-136: the Dataset
\* after the call
create_job(self, group, nodes, job_script_filename, name) ==
    LET path == os_path_join(os_path_join(self.path, group), nodes)
        job == created_job(path, group, nodes, job_script_filename, name)
    IN  [self EXCEPT !.jobs = IF py_truthy(self.jobs)
                              THEN Lst(Append(self.jobs.items, job))
                              ELSE Lst(<<job>>)]

\* the largest number of create_job calls on one Dataset
MaxCreated == 2

GroupArgs == {<<>>, S_A}
NodesArgs == {<<>>, S_x}

RECURSIVE created_so_far(_)
\* the number of create_job calls since the Dataset was constructed
created_so_far(o) == IF o.op = "create_job" THEN 1 + created_so_far(o.of) ELSE 0

\* ds.create_job('VaspJob', group, nodes, name=name)
CreateJob ==
    /\ ds # NoneV
    /\ ds_op.op \in {"Dataset", "create_job"}
    /\ created_so_far(ds_op) < MaxCreated
    /\ \E group \in GroupArgs, nodes \in NodesArgs :
          /\ ds_op' = [op |-> "create_job", group |-> group, nodes |-> nodes, of |-> ds_op]
          /\ ds' = create_job(ds, group, nodes, "job.sh", S_b)
    /\ ds_ret' = [status |-> "ok"]
    /\ UNCHANGED ds_walk
    /\ UNCHANGED other_than_ds

NextDirectory == FromDirectory \/ DropDataset

SpecDirectory == InitDirectory /\ [][NextDirectory]_vars

NextDataset == NewDataset \/ SelectJobs \/ DropDataset

SpecDataset == InitDataset /\ [][NextDataset]_vars

NextCreate == NewDataset \/ CreateJob \/ DropDataset

SpecCreate == InitDataset /\ [][NextCreate]_vars

(***************************************************************************)
(* Properties of Dataset                                                   *)
(***************************************************************************)
DsDid(op) == ds_op # NoneV /\ ds_op.op = op

DsReturned(op) == DsDid(op) /\ ds_ret.status = "ok"

\* the dataset built by from_directory holds a job for the directory root
DsHasJob(root) ==
    /\ DsReturned("from_directory")
    /\ \E k \in 1..Len(ds.jobs.items) : ds.jobs.items[k].path = root

\* the directory holds the job script and the four input files
DsComplete(e) ==
    /\ in_files(ds_op.job_script_filename, e.files)
    /\ \A f \in {"INCAR", "KPOINTS", "POSCAR", "POTCAR"} : in_files(f, e.files)

\* C16: Dataset.from_directory adds a job for a directory if and only if the
\* directory contains the job script and all of INCAR, KPOINTS, POSCAR and
\* POTCAR; a directory that misses one of the four yields no job.
C16_JobIffAllInputs ==
    DsDid("from_directory") =>
        \A k \in 1..Len(ds_walk) : DsHasJob(ds_walk[k].root) <=> DsComplete(ds_walk[k])

\* a directory with the job script and POTCAR only has its job
C16_PotcarSuffices ==
    /\ DsReturned("from_directory")
    /\ \E k \in 1..Len(ds_walk) :
           /\ ds_walk[k].files = <<"POTCAR", "job.sh">>
           /\ DsHasJob(ds_walk[k].root)

\* with a loader that insists on its input files, such a directory ends the
\* call and the complete directory before it has no job either
C16_LoaderRaises ==
    /\ DsDid("from_directory")
    /\ ds_ret.status = "FileNotFoundError"
    /\ ds = NoneV
    /\ \E k \in 1..Len(ds_walk) : DsComplete(ds_walk[k])

\* what the code does: of the four input files only POTCAR is looked for
C16_JobIffPotcar ==
    DsReturned("from_directory") =>
        \A k \in 1..Len(ds_walk) :
            DsHasJob(ds_walk[k].root) <=>
                /\ in_files(ds_op.job_script_filename, ds_walk[k].files)
                /\ in_files("POTCAR", ds_walk[k].files)

\* a criterion is applied when it is given and not empty
DsApplied(criterion) == py_truthy(criterion)

\* job j satisfies every criterion of the call that is read as given by test
DsSatisfies(j, given(_)) ==
    /\ given(ds_op.names) => py_in(j.name, ds_op.names)
    /\ given(ds_op.groups) => py_in(j.group.s, ds_op.groups)
    /\ given(ds_op.common_node) => StrContains(j.nodes.s, ds_op.common_node.s)
    /\ \A f \in 1..Len(ds_op.kwargs) :
           job_feature(j, ds_op.kwargs[f][1]) = ds_op.kwargs[f][2]

\* what select_jobs is to return when the criteria given are those of test
DsSelection(given(_)) ==
    LET sel == SelectSeq(ds.jobs.items, LAMBDA j : DsSatisfies(j, given))
    IN  IF Len(sel) = 1 THEN sel[1] ELSE Lst(sel)

\* C17: select_jobs(names, groups, common_node, **kwargs) selects exactly the
\* jobs of self.jobs that satisfy every supplied criterion (name in names,
\* group in groups, common_node contained in nodes, every keyword method
\* returning the required value), in their original order; it returns that
\* list, or the job itself when exactly one is selected, and leaves self.jobs
\* unchanged.
C17_SelectJobs ==
    (DsDid("select_jobs") /\ ds.jobs # NoneV) =>
        /\ ds_ret.status = "ok"
        /\ ds_ret.value = DsSelection(LAMBDA c : c # NoneV)
        /\ ds = ds_op.before

\* names = [] on a dataset with jobs: every job is returned
C17_EmptyNamesSelectAll ==
    /\ DsDid("select_jobs")
    /\ ds.jobs # NoneV
    /\ Len(ds.jobs.items) = 2
    /\ ds_op.names = Lst(<<>>)
    /\ ds_op.groups = NoneV
    /\ ds_op.common_node = NoneV
    /\ ds_op.kwargs = <<>>
    /\ ds_ret.value = ds.jobs

\* what the code does: a criterion that is None or empty is not applied
C17_EmptyCriteriaIgnored ==
    (DsDid("select_jobs") /\ ds.jobs # NoneV) =>
        /\ ds_ret.status = "ok"
        /\ ds_ret.value = DsSelection(DsApplied)
        /\ ds = ds_op.before

(***************************************************************************)
(* CalculationSchemes and Scheme (calculation_schemes.py)                  *)
(***************************************************************************)
\* the methods of CalculationSchemes that take get_stepnames_only
SchemeMethods ==
    {"dielectric_properties_electronic", "dielectric_properties_ionic_lcalceps",
     "dielectric_properties_ionic_lepsilon", "hse_rel", "hse_rel_gamma",
     "hse_rel_gamma_extended", "hse_rel_short", "hse_vol_rel",
     "pbe_electronic_structure", "pbe_rel", "pbe_vol_rel"}

\* the stepnames list of each method (lines 81, 118, 154, 228, 298-299,
\* 406-407, 519, 570, 708, 775, 821)
stepnames(method) ==
    CASE method = "dielectric_properties_electronic" -> <<"eps-electronic">>
      [] method = "dielectric_properties_ionic_lcalceps" -> <<"eps-ionic-lcalceps">>
      [] method = "dielectric_properties_ionic_lepsilon" -> <<"eps-ionic-lepsilon">>
      [] method = "hse_rel" -> <<"1-PBE-SCF", "2-PBE-OPT", "3-HSE-SCF", "4-HSE-OPT">>
      [] method = "hse_rel_gamma" ->
            <<"1-PBE-SCF-Gamma", "2-PBE-OPT-Gamma", "3-HSE-SCF-Gamma",
              "4-HSE-OPT-Gamma", "5-PBE-SCF", "6-HSE-SCF", "7-HSE-OPT">>
      [] method = "hse_rel_gamma_extended" ->
            <<"1-PBE-SCF-Gamma", "2-PBE-OPT-Gamma", "3-HSE-SCF-Gamma",
              "4-HSE-OPT-Gamma", "5-PBE-SCF", "6-PBE-OPT", "7-HSE-SCF", "8-HSE-OPT">>
      [] method = "hse_rel_short" -> <<"1-HSE-SCF", "2-HSE-OPT">>
      [] method = "hse_vol_rel" ->
            <<"1-PBE-SCF", "2-PBE-OPT", "3-HSE-SCF", "4-HSE-OPT", "5-HSE-VOPT">>
      [] method = "pbe_electronic_structure" -> <<"1-PBE-SCF", "2-PBE-DOS", "3-PBE-BS">>
      [] method = "pbe_rel" -> <<"1-PBE-SCF", "2-PBE-OPT">>
      [] method = "pbe_vol_rel" -> <<"1-PBE-SCF", "2-PBE-OPT", "3-PBE-VOPT">>

\* the index into stepnames each steps.append(Step(stepnames[..], ..)) of the
\* method uses, in the order of the appends
appended_indices(method) ==
    CASE method = "hse_rel_gamma" -> <<0, 1, 2, 3, 4, 5, 0>>
      [] OTHER -> [k \in 1..Len(stepnames(method)) |-> k - 1]

\* scheme_name if scheme_name else the default of the method
scheme_name_of(method, scheme_name) ==
    IF scheme_name # "" THEN scheme_name
    ELSE CASE method = "dielectric_properties_electronic" -> "eps-el"
           [] method = "dielectric_properties_ionic_lcalceps" -> "eps-ion-lcal"
           [] method = "dielectric_properties_ionic_lepsilon" -> "eps-el-leps"
           [] method = "hse_rel" -> "HSE-rel"
           [] method = "hse_rel_gamma" -> "HSE-rel-gamma"
           [] method = "hse_rel_gamma_extended" -> "HSE-rel-gamma-ext"
           [] method = "hse_rel_short" -> "HSE-rel-short"
           [] method = "hse_vol_rel" -> "HSE-Vrel"
           [] method = "pbe_electronic_structure" -> "PBE-el-str"
           [] method = "pbe_rel" -> "PBE-rel"
           [] method = "pbe_vol_rel" -> "PBE-Vrel"

\* Step(name, vaspinput, job_settings): part is the position of the block of
\* the method that set the step's input up, job_name the name it gave the job
Step(name, part, job_name) == [name |-> name, part |-> part, job_name |-> job_name]

\* The Scheme a method returns: one Step per block, named by the index the
\* block's append uses.
scheme_steps(method, scheme_name) ==
    LET idx == appended_indices(method)
    IN  [k \in 1..Len(idx) |->
            Step(stepnames(method)[idx[k] + 1], k,
                 <<scheme_name_of(method, scheme_name), k>>)]

\* Scheme(steps), lines 867-875
Scheme(steps) == [tag |-> "scheme", steps |-> steps]

\* a method of CalculationSchemes called with get_stepnames_only
calculation_scheme(method, scheme_name, get_stepnames_only) ==
    IF get_stepnames_only THEN [status |-> "ok", stepnames |-> stepnames(method)]
    ELSE [status |-> "ok", scheme |-> Scheme(scheme_steps(method, scheme_name))]

\* get_step that takes the first step of the name, however many there are
get_step_first(steps, stepname) ==
    LET step == SelectSeq(steps, LAMBDA s : s.name = stepname)
    IN  IF Len(step) = 0 THEN [status |-> "IndexError"]
        ELSE [status |-> "ok", step |-> step[1]]

\* Scheme.get_step(stepname), lines 900-911
get_step(steps, stepname) ==
    LET step == SelectSeq(steps, LAMBDA s : s.name = stepname)
    IN  IF Len(step) > 1 THEN [status |-> "ValueError"]
        ELSE IF Len(step) = 0 THEN [status |-> "IndexError"]
        ELSE [status |-> "ok", step |-> step[1]]

RECURSIVE write_steps(_, _, _, _)
\* The loop of Scheme.write_scheme, lines 1026-1031: each step's input and
\* job script are written to the directory named after the step.
write_steps(steps, path, k, dirs) ==
    IF k > Len(steps) THEN dirs
    ELSE LET complete_path == IF path # "" THEN <<path, steps[k].name>>
                              ELSE <<steps[k].name>>
             rest == [p \in (DOMAIN dirs) \ {complete_path} |-> dirs[p]]
         IN  write_steps(steps, path, k + 1,
                         (complete_path :> [input |-> steps[k].part,
                                            script |-> steps[k].job_name]) @@ rest)

SchemeNameArgs == {"", "S"}
PathArgs == {"", "out"}
StepNameArgs ==
    UNION {{stepnames(m)[k] : k \in 1..Len(stepnames(m))} : m \in SchemeMethods}

InitSchemes ==
    /\ cs_scheme = NoneV
    /\ cs_written = <<>>
    /\ cs_op = NoneV
    /\ cs_ret = NoneV
    /\ mobilities = NoneV
    /\ cnd_args = NoneV
    /\ cnd_ret = NoneV
    /\ IdleData
    /\ IdlePressure
    /\ IdleDataset
    /\ IdleAnalysis
    /\ IdleDelta

\* CalculationSchemes(structure, ...).<method>(scheme_name, get_stepnames_only)
CallScheme ==
    /\ cs_op = NoneV
    /\ \E method \in SchemeMethods, scheme_name \in SchemeNameArgs,
          get_stepnames_only \in BOOLEAN :
          LET r == calculation_scheme(method, scheme_name, get_stepnames_only)
          IN  /\ cs_op' = [op |-> method, scheme_name |-> scheme_name,
                           get_stepnames_only |-> get_stepnames_only]
              /\ cs_scheme' = IF get_stepnames_only THEN NoneV ELSE r.scheme
              /\ cs_ret' = r
    /\ UNCHANGED cs_written
    /\ UNCHANGED other_than_cs

\* scheme.get_step(stepname)
GetStep ==
    /\ cs_scheme # NoneV
    /\ \E stepname \in StepNameArgs :
          /\ cs_op' = [op |-> "get_step", stepname |-> stepname, of |-> cs_op]
          /\ cs_ret' = get_step(cs_scheme.steps, stepname)
    /\ cs_op.op \in SchemeMethods
    /\ UNCHANGED <<cs_scheme, cs_written>>
    /\ UNCHANGED other_than_cs

\* scheme.write_scheme(path)
WriteScheme ==
    /\ cs_scheme # NoneV
    /\ cs_op.op \in SchemeMethods
    /\ \E path \in PathArgs :
          /\ cs_op' = [op |-> "write_scheme", path |-> path, of |-> cs_op]
          /\ cs_written' = write_steps(cs_scheme.steps, path, 1, cs_written)
    /\ cs_ret' = [status |-> "ok"]
    /\ UNCHANGED cs_scheme
    /\ UNCHANGED other_than_cs

\* the Scheme, what was written and the outcome are dropped
DropScheme ==
    /\ cs_op # NoneV
    /\ cs_scheme' = NoneV
    /\ cs_written' = <<>>
    /\ cs_op' = NoneV
    /\ cs_ret' = NoneV
    /\ UNCHANGED other_than_cs

NextSchemes == CallScheme \/ GetStep \/ WriteScheme \/ DropScheme

SpecSchemes == InitSchemes /\ [][NextSchemes]_vars

(***************************************************************************)
(* Properties of CalculationSchemes and Scheme                             *)
(***************************************************************************)
\* the method the Scheme under study came from
CsMethod == IF cs_op.op \in SchemeMethods THEN cs_op.op ELSE cs_op.of.op

CsSteps == cs_scheme.steps

CsStepNames == [k \in 1..Len(CsSteps) |-> CsSteps[k].name]

\* C18: for every method taking get_stepnames_only, the step names of the
\* Scheme it returns are, in order, the list it returns with
\* get_stepnames_only=True; the names of one scheme are all distinct, so
\* get_step finds the step of each listed name and write_scheme writes each
\* step to a directory of its own.
C18_StepNames ==
    (cs_op # NoneV /\ cs_scheme # NoneV) =>
        /\ CsStepNames = calculation_scheme(CsMethod, "", TRUE).stepnames
        /\ \A i, j \in 1..Len(CsSteps) :
               CsSteps[i].name = CsSteps[j].name => i = j
        /\ (/\ cs_op.op = "get_step"
            /\ \E k \in 1..Len(stepnames(CsMethod)) :
                   stepnames(CsMethod)[k] = cs_op.stepname)
               => /\ cs_ret.status = "ok"
                  /\ cs_ret.step.name = cs_op.stepname
        /\ cs_op.op = "write_scheme" =>
               Cardinality(DOMAIN cs_written) = Len(CsSteps)

\* hse_rel_gamma: the list has '7-HSE-OPT', the Scheme has a second
\* '1-PBE-SCF-Gamma' in its place
C18_HseRelGammaNames ==
    /\ cs_op # NoneV
    /\ cs_op.op = "hse_rel_gamma"
    /\ cs_scheme # NoneV
    /\ Len(CsSteps) = 7
    /\ CsSteps[7].name = "1-PBE-SCF-Gamma"
    /\ stepnames("hse_rel_gamma")[7] = "7-HSE-OPT"

\* get_step of the first listed name raises ValueError
C18_GetStepRaises ==
    /\ cs_op # NoneV
    /\ cs_op.op = "get_step"
    /\ cs_op.of.op = "hse_rel_gamma"
    /\ cs_op.stepname = "1-PBE-SCF-Gamma"
    /\ cs_ret.status = "ValueError"

\* write_scheme leaves six directories for seven steps, the input of the last
\* step in the directory of the first name
C18_WriteOverwrites ==
    /\ cs_op # NoneV
    /\ cs_op.op = "write_scheme"
    /\ cs_op.of.op = "hse_rel_gamma"
    /\ cs_op.path = ""
    /\ Cardinality(DOMAIN cs_written) = 6
    /\ cs_written[<<"1-PBE-SCF-Gamma">>].input = 7

\* what holds: every method other than hse_rel_gamma returns a Scheme with the
\* listed names in order
C18_OtherMethods ==
    (cs_op # NoneV /\ cs_scheme # NoneV /\ CsMethod # "hse_rel_gamma") =>
        /\ CsStepNames = stepnames(CsMethod)
        /\ \A i, j \in 1..Len(CsSteps) :
               CsSteps[i].name = CsSteps[j].name => i = j
        /\ cs_op.op = "write_scheme" =>
               Cardinality(DOMAIN cs_written) = Len(CsSteps)

(***************************************************************************)
(* ThermoData.from_json of a JSON text, checked under SpecData.            *)
(***************************************************************************)
\* the argument of the last from_json is the JSON text of a ThermoData
\* document and not the path of a file
TdFromText ==
    /\ TdDid("from_json")
    /\ "text" \in DOMAIN td_op.arg
    /\ td_op.arg \notin DOMAIN fs

\* C19: from_json(s), for a string s that is not the path of an existing file
\* but the JSON text of a ThermoData document, reads s as a string and returns
\* the ThermoData that from_dict gives for the parsed document; it does not
\* fail.
C19_FromJsonText ==
    TdFromText => td_ret = from_dict(json_load(td_op.arg.text))

\* the JSON text of a ThermoData holding data is passed and the call raises
C19_TextRaises ==
    /\ TdFromText
    /\ td_op.arg = json_dumps(as_dict(td))
    /\ DictHas(td.data, "partial_pressures")
    /\ td_ret = [status |-> "AttributeError"]

\* what the code does: from_json returns a ThermoData only for the path of
\* an existing file
C19_OnlyFiles ==
    TdDid("from_json") =>
        IF td_op.arg \in DOMAIN fs
        THEN td_ret = from_dict(json_load(fs[td_op.arg]))
        ELSE td_ret = [status |-> "AttributeError"]

(***************************************************************************)
(* DefectsAnalysis.stable_charge_state(species, Ef, mu)                    *)
(*                                                                         *)
(* The entries of one species are supplied one by one, in any order; a     *)
(* species has one entry per charge state.                                 *)
(***************************************************************************)
\* the charge states of the species Vac_Na that may be supplied; their
\* formation energies cross at several Fermi levels of the grid
EntryPool ==
    { [name |-> S_Vac_Na_mult2, charge |-> -1, E_ref |-> 3, delta |-> 1, mult |-> 2],
      [name |-> S_Vac_Na_mult2, charge |-> 0, E_ref |-> 2, delta |-> 1, mult |-> 2],
      [name |-> S_Vac_Na_mult2, charge |-> 1, E_ref |-> 1, delta |-> 1, mult |-> 2],
      [name |-> S_Vac_Na_mult2, charge |-> 2, E_ref |-> 1, delta |-> 1, mult |-> 2] }

\* the largest number of entries supplied for the species
MaxEntries == 3

\* the chemical potentials stable_charge_state is called with
MuArgs == {-1, 0}

\* every formation energy is compared and nothing else: of entries of equal
\* energy the one met first is kept
more_stable_energy_only(e, best, Ef, mu) ==
    formation_energy(e, mu, Ef) < formation_energy(best, mu, Ef)

\* whether entry e is to replace best: its formation energy is lower, or
\* equal with a smaller charge
more_stable(e, best, Ef, mu) ==
    \/ formation_energy(e, mu, Ef) < formation_energy(best, mu, Ef)
    \/ /\ formation_energy(e, mu, Ef) = formation_energy(best, mu, Ef)
       /\ e.charge < best.charge

RECURSIVE stable_scan(_, _, _, _, _)
\* the entries from position k on are compared in turn with the best so far
stable_scan(entries, k, best, Ef, mu) ==
    IF k > Len(entries) THEN best
    ELSE stable_scan(entries, k + 1,
                     IF more_stable(entries[k], best, Ef, mu) THEN entries[k] ELSE best,
                     Ef, mu)

\* stable_charge_state over the entries of the species
stable_charge_state(entries, Ef, mu) ==
    IF Len(entries) = 0 THEN [status |-> "EmptySpeciesError"]
    ELSE [status |-> "ok", entry |-> stable_scan(entries, 2, entries[1], Ef, mu)]

InitAnalysis ==
    /\ da_supplied = <<>>
    /\ da_op = NoneV
    /\ da_ret = NoneV
    /\ mobilities = NoneV
    /\ cnd_args = NoneV
    /\ cnd_ret = NoneV
    /\ IdleData
    /\ IdlePressure
    /\ IdleDataset
    /\ IdleSchemes
    /\ IdleDelta

\* one more DefectEntry of the species is supplied to the analysis
SupplyEntry ==
    /\ Len(da_supplied) < MaxEntries
    /\ \E e \in EntryPool :
          /\ \A k \in 1..Len(da_supplied) : da_supplied[k].charge # e.charge
          /\ da_supplied' = Append(da_supplied, e)
    /\ da_op' = NoneV
    /\ da_ret' = NoneV
    /\ UNCHANGED other_than_da

\* da.stable_charge_state(species, Ef, mu)
StableChargeState ==
    /\ \E Ef \in 0..GridMax, mu \in MuArgs :
          /\ da_op' = [op |-> "stable_charge_state", Ef |-> Ef, mu |-> mu]
          /\ da_ret' = stable_charge_state(da_supplied, Ef, mu)
    /\ UNCHANGED da_supplied
    /\ UNCHANGED other_than_da

NextAnalysis == SupplyEntry \/ StableChargeState

SpecAnalysis == InitAnalysis /\ [][NextAnalysis]_vars

\* stable_charge_state has returned for a species that has entries
DaStable ==
    /\ da_op # NoneV
    /\ da_op.op = "stable_charge_state"
    /\ Len(da_supplied) > 0

\* the formation energy of an entry at the point of the last call
DaEnergy(e) == formation_energy(e, da_op.mu, da_op.Ef)

\* every order in which the supplied entries can be supplied
DaOrders ==
    LET n == Len(da_supplied)
    IN  { [k \in 1..n |-> da_supplied[p[k]]] :
              p \in {q \in [1..n -> 1..n] : \A a, b \in 1..n : q[a] = q[b] => a = b} }

\* C20: for a non-empty set of entries of one species and a fixed (Ef, mu),
\* stable_charge_state returns one of the entries, its formation energy
\* E_ref + charge*Ef + delta*mu is minimal among the entries, no entry of the
\* same energy has a smaller charge, and the same entry is returned for every
\* order in which the entries are supplied.
C20_StableChargeState ==
    DaStable =>
        /\ da_ret.status = "ok"
        /\ \E i \in 1..Len(da_supplied) : da_supplied[i] = da_ret.entry
        /\ \A k \in 1..Len(da_supplied) :
               /\ DaEnergy(da_ret.entry) <= DaEnergy(da_supplied[k])
               /\ DaEnergy(da_supplied[k]) = DaEnergy(da_ret.entry)
                      => da_ret.entry.charge <= da_supplied[k].charge
        /\ \A p \in DaOrders :
               stable_charge_state(p, da_op.Ef, da_op.mu) = da_ret

\* three entries were supplied, two of them share the least formation energy,
\* the one of larger charge was supplied first, and the other is returned
C20_Witness ==
    /\ DaStable
    /\ Len(da_supplied) = 3
    /\ da_ret.status = "ok"
    /\ \E i, k \in 1..Len(da_supplied) :
          /\ i < k
          /\ da_supplied[k] = da_ret.entry
          /\ DaEnergy(da_supplied[i]) = DaEnergy(da_ret.entry)
          /\ da_supplied[i].charge > da_ret.entry.charge
    /\ \E j \in 1..Len(da_supplied) : DaEnergy(da_supplied[j]) > DaEnergy(da_ret.entry)

\* stable_charge_state was called for a species without entries and failed
C20_WitnessEmpty ==
    /\ da_op # NoneV
    /\ da_supplied = <<>>
    /\ da_ret = [status |-> "EmptySpeciesError"]

(***************************************************************************)
(* DefectsAnalysis.charge_neutrality_residual and the Fermi-level solvers  *)
(***************************************************************************)
\* the chemical potentials, temperatures and frozen concentrations the
\* residual and the solvers are called with
ResidualMu == {0, 1, 3}
ResidualT == {1, 2}
ResidualFrozen ==
    FrozenArgs \cup {FDict([k \in {S_Vac_Na} |-> 3]),
                     FDict([k \in {S_Vac_Na_mult2} |-> 5])}

InitNeutrality ==
    /\ IdleAnalysis
    /\ mobilities = NoneV
    /\ cnd_args = NoneV
    /\ cnd_ret = NoneV
    /\ IdleData
    /\ IdlePressure
    /\ IdleDataset
    /\ IdleSchemes
    /\ IdleDelta

\* da.charge_neutrality_residual(mu, T, Ef, frozen, external)
ChargeNeutralityResidual ==
    /\ \E mu \in ResidualMu, T \in ResidualT, Ef \in 0..GridMax,
          frozen \in ResidualFrozen, external \in ExternalArgs :
          /\ da_op' = [op |-> "charge_neutrality_residual", mu |-> mu, T |-> T,
                       Ef |-> Ef, frozen |-> frozen, external |-> external]
          /\ da_ret' = charge_neutrality_residual(mu, T, Ef,
                                                  frozen_by_species(frozen), external)
    /\ UNCHANGED da_supplied
    /\ UNCHANGED other_than_da

\* da.non_equilibrium_fermi_level(frozen, mu, external, T)
NonEquilibriumFermiLevel ==
    /\ \E mu \in ResidualMu, T \in ResidualT,
          frozen \in ResidualFrozen, external \in ExternalArgs :
          /\ da_op' = [op |-> "non_equilibrium_fermi_level", mu |-> mu, T |-> T,
                       frozen |-> frozen, external |-> external]
          /\ da_ret' = non_equilibrium_fermi_level(frozen, mu, external, T)
    /\ UNCHANGED da_supplied
    /\ UNCHANGED other_than_da

\* da.equilibrium_fermi_level(mu, T)
EquilibriumFermiLevel ==
    /\ \E mu \in ResidualMu, T \in ResidualT :
          /\ da_op' = [op |-> "equilibrium_fermi_level", mu |-> mu, T |-> T,
                       frozen |-> NoneV, external |-> <<>>]
          /\ da_ret' = equilibrium_fermi_level(mu, T)
    /\ UNCHANGED da_supplied
    /\ UNCHANGED other_than_da

NextNeutrality ==
    ChargeNeutralityResidual \/ NonEquilibriumFermiLevel \/ EquilibriumFermiLevel

SpecNeutrality == InitNeutrality /\ [][NextNeutrality]_vars

\* the last DefectsAnalysis operation was op
DaDid(op) == da_op # NoneV /\ da_op.op = op

\* the residual at Ef for the arguments of the last call
DaResidual(Ef) ==
    charge_neutrality_residual(da_op.mu, da_op.T, Ef,
                               frozen_by_species(da_op.frozen), da_op.external)

DaSolved == DaDid("non_equilibrium_fermi_level") \/ DaDid("equilibrium_fermi_level")

\* the residual changes sign across the bracket 0..GridMax
DaSignChange == DaResidual(0) >= 0 /\ DaResidual(GridMax) <= 0

C22_WitnessEquilibrium ==
    /\ DaDid("equilibrium_fermi_level")
    /\ da_ret.status = "ok"
    /\ da_ret.mue > 0

\* a solve found no sign change and failed
C22_WitnessNotFound ==
    /\ DaSolved
    /\ ~DaSignChange
    /\ da_ret = [status |-> "FermiLevelNotFoundError"]

(***************************************************************************)
(* Scheme.get_step, checked under SpecSchemes.                             *)
(***************************************************************************)
\* get_step has returned
CsGotStep == cs_op # NoneV /\ cs_op.op = "get_step"

\* the positions of the steps named as the last get_step asked
CsNamed == {k \in 1..Len(CsSteps) : CsSteps[k].name = cs_op.stepname}

\* the steps the scheme was built with by the method called before get_step
CsBuilt == Scheme(scheme_steps(cs_op.of.op, cs_op.of.scheme_name))

\* C23: get_step(stepname) returns the step of that name when exactly one step
\* has it, raises ValueError when two or more have it and fails without a
\* step when none has it; a step returned bears the name asked for, and the
\* scheme's list of steps is the one it had before the call.
C23_GetStep ==
    CsGotStep =>
        /\ Cardinality(CsNamed) = 1 =>
               cs_ret = [status |-> "ok", step |-> CsSteps[CHOOSE k \in CsNamed : TRUE]]
        /\ Cardinality(CsNamed) > 1 => cs_ret = [status |-> "ValueError"]
        /\ Cardinality(CsNamed) = 0 =>
               (cs_ret.status # "ok" /\ "step" \notin DOMAIN cs_ret)
        /\ cs_ret.status = "ok" => cs_ret.step.name = cs_op.stepname
        /\ cs_scheme = CsBuilt

\* the one step of the name was returned from a scheme of several steps
C23_Witness ==
    /\ CsGotStep
    /\ Len(CsSteps) > 2
    /\ Cardinality(CsNamed) = 1
    /\ cs_ret.status = "ok"
    /\ cs_ret.step = CsSteps[2]

\* two steps bear the name and ValueError was raised
C23_WitnessTwo ==
    /\ CsGotStep
    /\ Cardinality(CsNamed) = 2
    /\ cs_ret.status = "ValueError"

\* no step bears the name and the call failed
C23_WitnessNone ==
    /\ CsGotStep
    /\ CsNamed = {}
    /\ cs_ret.status = "IndexError"

(***************************************************************************)
(* Dataset.create_job, checked under SpecCreate.                           *)
(***************************************************************************)
RECURSIVE DsConstructedJobs(_)
\* the jobs the Dataset held when it was constructed, as a sequence (none
\* for jobs=None and jobs=[])
DsConstructedJobs(o) ==
    IF o.op = "create_job" THEN DsConstructedJobs(o.of)
    ELSE LET jobs == new_dataset(ds_walk, DatasetPath, o.jobs).jobs
         IN  IF jobs.tag = "list" THEN jobs.items ELSE <<>>

RECURSIVE DsCalls(_)
\* the arguments of the create_job calls since construction, in call order
DsCalls(o) ==
    IF o.op = "create_job" THEN Append(DsCalls(o.of), o) ELSE <<>>

\* C24: after k create_job calls on a Dataset constructed with the list J
\* (None, empty or not), self.jobs is J's jobs followed by the k created jobs
\* in call order; every created job has the group and nodes of its call and
\* the path join(dataset path, group, nodes).
C24_CreateJob ==
    DsDid("create_job") =>
        LET J == DsConstructedJobs(ds_op)
            calls == DsCalls(ds_op)
        IN  /\ ds.jobs.tag = "list"
            /\ Len(ds.jobs.items) = Len(J) + Len(calls)
            /\ \A i \in 1..Len(J) : ds.jobs.items[i] = J[i]
            /\ \A k \in 1..Len(calls) :
                   LET job == ds.jobs.items[Len(J) + k]
                   IN  /\ job.group = Str(calls[k].group)
                       /\ job.nodes = Str(calls[k].nodes)
                       /\ job.path = os_path_join(os_path_join(DatasetPath, calls[k].group),
                                                  calls[k].nodes)

\* two jobs were created with different arguments on a Dataset constructed
\* with two jobs
C24_Witness ==
    /\ DsDid("create_job")
    /\ Len(DsConstructedJobs(ds_op)) = 2
    /\ Len(DsCalls(ds_op)) = 2
    /\ DsCalls(ds_op)[1].group # DsCalls(ds_op)[2].group
    /\ Len(ds.jobs.items) = 4

\* a job was created on a Dataset constructed with jobs=None
C24_WitnessNone ==
    /\ DsDid("create_job")
    /\ ds_op.of.op = "Dataset"
    /\ ds_op.of.jobs = NoneV
    /\ Len(ds.jobs.items) = 1

(***************************************************************************)
(* get_delta_atoms and get_delta_atoms_from_comp (defects.py:710-750)      *)
(*                                                                         *)
(* A Composition is a function from the elements it contains to their      *)
(* positive counts.                                                        *)
(***************************************************************************)
Elements == {"Na", "Cl"}

\* the largest count of one element in a composition
MaxCount == 2

Compositions == UNION {[els -> 1..MaxCount] : els \in SUBSET Elements}

\* comp_bulk[el] if el in comp_bulk.keys() else 0, line 745
nsites_in(comp, el) == IF el \in DOMAIN comp THEN comp[el] ELSE 0

\* get_delta_atoms_from_comp, lines 742-750: the loop runs over the items of
\* comp_defect and keeps the non-zero differences
get_delta_atoms_from_comp(comp_defect, comp_bulk) ==
    [el \in {e \in DOMAIN comp_defect :
                comp_defect[e] - nsites_in(comp_bulk, e) # 0} |->
        comp_defect[el] - nsites_in(comp_bulk, el)]

\* get_delta_atoms, lines 723-726
get_delta_atoms(structure_defect, structure_bulk) ==
    get_delta_atoms_from_comp(structure_defect.composition, structure_bulk.composition)

InitDelta ==
    /\ IdleDelta
    /\ mobilities = NoneV
    /\ cnd_args = NoneV
    /\ cnd_ret = NoneV
    /\ IdleData
    /\ IdlePressure
    /\ IdleDataset
    /\ IdleSchemes
    /\ IdleAnalysis

\* get_delta_atoms_from_comp(comp_defect, comp_bulk)
GetDeltaAtomsFromComp ==
    /\ \E comp_defect \in Compositions, comp_bulk \in Compositions :
          /\ delta_args' = [op |-> "get_delta_atoms_from_comp",
                            defect |-> comp_defect, bulk |-> comp_bulk]
          /\ delta_ret' = get_delta_atoms_from_comp(comp_defect, comp_bulk)
    /\ UNCHANGED other_than_dl

\* get_delta_atoms(structure_defect, structure_bulk)
GetDeltaAtoms ==
    /\ \E comp_defect \in Compositions, comp_bulk \in Compositions :
          /\ delta_args' = [op |-> "get_delta_atoms",
                            defect |-> comp_defect, bulk |-> comp_bulk]
          /\ delta_ret' = get_delta_atoms([composition |-> comp_defect],
                                          [composition |-> comp_bulk])
    /\ UNCHANGED other_than_dl

NextDelta == GetDeltaAtomsFromComp \/ GetDeltaAtoms

SpecDelta == InitDelta /\ [][NextDelta]_vars

DlCalled == delta_args # NoneV

\* the count of el in the defect composition less its count in the bulk
DlDifference(el) == nsites_in(delta_args.defect, el) - nsites_in(delta_args.bulk, el)

\* C25: the dictionary returned holds, for every element whose count differs
\* between the defect and the bulk composition, the difference (defect less
\* bulk), elements of the bulk absent from the defect included, and holds no
\* element whose count is the same in both.
C25_DeltaAtoms ==
    DlCalled =>
        /\ DOMAIN delta_ret = {el \in Elements : DlDifference(el) # 0}
        /\ \A el \in DOMAIN delta_ret : delta_ret[el] = DlDifference(el)

\* an element of the bulk is absent from the defect composition and from the
\* dictionary returned
C25_MissingElement ==
    /\ DlCalled
    /\ \E el \in (DOMAIN delta_args.bulk) \ (DOMAIN delta_args.defect) :
          el \notin DOMAIN delta_ret

\* what holds: the dictionary returned holds the differing elements of the
\* defect composition with their differences, and nothing else
C25_DefectElementsOnly ==
    DlCalled =>
        /\ DOMAIN delta_ret = {el \in DOMAIN delta_args.defect : DlDifference(el) # 0}
        /\ \A el \in DOMAIN delta_ret : delta_ret[el] = DlDifference(el)

(***************************************************************************)
(* The temperature of the ThermoData returned, checked under SpecSweep.    *)
(***************************************************************************)
\* C26: the temperature attribute of the ThermoData returned by
\* get_concentrations, get_conductivities and get_fermi_levels is the
\* temperature the solves ran with, be it the temperature argument or the
\* temperature of the reservoirs; for get_quenched_fermi_levels it is the
\* pair (initial_temperature, final_temperature).
C26_TemperatureAttribute ==
    /\ \A method \in PaTemperatureMethods :
           PaReturned(method) => pa_ret.obj.temperature = PaResolved.T
    /\ PaReturned("get_quenched_fermi_levels") =>
           pa_ret.obj.temperature =
               Tup(<<pa_call.initial_temperature, pa_call.final_temperature>>)

\* the solves of both points ran with the temperature of the reservoirs and
\* the ThermoData returned has temperature None
C26_ReservoirTemperatureLost ==
    /\ PaReturned("get_concentrations")
    /\ pa_call.temperature = NoneV
    /\ Len(pa_solves) = 2
    /\ \A k \in 1..Len(pa_solves) : pa_solves[k].T = pa_call.reservoirs.temperature
    /\ pa_call.reservoirs.temperature # NoneV
    /\ pa_ret.obj.temperature = NoneV

\* what holds: the attribute is the temperature argument as passed (None when
\* none was), and the pair of temperatures after a quench
C26_ArgumentTemperature ==
    /\ \A method \in PaTemperatureMethods :
           PaReturned(method) => pa_ret.obj.temperature = pa_call.temperature
    /\ PaReturned("get_quenched_fermi_levels") =>
           pa_ret.obj.temperature =
               Tup(<<pa_call.initial_temperature, pa_call.final_temperature>>)

(***************************************************************************)
(* The caller's quenched_species list, checked under SpecSweep.            *)
(***************************************************************************)
\* C27: get_quenched_fermi_levels leaves the caller's quenched_species list
\* as it was passed, the same elements in the same order, for every value of
\* ignore_multiplicity.
C27_ListUnchanged ==
    PaCalled("get_quenched_fermi_levels") =>
        quenched_species = pa_call.quenched_species

\* the call has returned and the caller's list ['Vac_Na_mult2'] has become
\* ['Vac_Na']
C27_ListStripped ==
    /\ PaReturned("get_quenched_fermi_levels")
    /\ pa_call.ignore_multiplicity
    /\ pa_call.quenched_species = Lst(<<S_Vac_Na_mult2>>)
    /\ quenched_species = Lst(<<S_Vac_Na>>)
    /\ Len(pa_solves) = 2

\* what holds: the list is left as passed when ignore_multiplicity is False
C27_UnchangedWhenKept ==
    (PaCalled("get_quenched_fermi_levels") /\ ~pa_call.ignore_multiplicity) =>
        quenched_species = pa_call.quenched_species

(***************************************************************************)
(* The configured state of a PressureAnalysis, checked under SpecSweep.    *)
(***************************************************************************)
\* C28: no operation of PressureAnalysis changes the configured state of the
\* object: in every state, between calls, inside a loop and after a return
\* or a raise, frozen_defect_concentrations and external_defects hold what
\* the constructor stored, whatever concentrations the points of a quenched
\* sweep have frozen.
C28_ConfiguredStateKept ==
    /\ frozen_defect_concentrations = init_frozen(pa_init.frozen_defect_concentrations)
    /\ external_defects = init_external(pa_init.external_defects)
    /\ \A k \in 1..Len(pa_solves) :
           pa_solves[k].solver =
               fermi_solver(init_frozen(pa_init.frozen_defect_concentrations),
                            init_external(pa_init.external_defects))

\* a quenched sweep over two points has returned on an object with a
\* configured frozen dict and external defects, and each point froze
\* concentrations other than the configured ones
C28_Witness ==
    /\ PaReturned("get_quenched_fermi_levels")
    /\ frozen_defect_concentrations # NoneV
    /\ external_defects # <<>>
    /\ Len(pa_solves) = 2
    /\ \A k \in 1..2 :
           /\ pa_solves[k].quenched_concentrations # NoneV
           /\ pa_solves[k].quenched_concentrations # frozen_defect_concentrations

\* the same on an object configured with nothing, every species frozen
C28_WitnessUnconfigured ==
    /\ PaReturned("get_quenched_fermi_levels")
    /\ frozen_defect_concentrations = NoneV
    /\ external_defects = <<>>
    /\ pa_call.quenched_species = NoneV
    /\ Len(pa_solves) = 2
    /\ \A k \in 1..2 : pa_solves[k].quenched_concentrations # NoneV

(***************************************************************************)
(* get_fermi_levels against get_concentrations, checked under SpecSweep.   *)
(***************************************************************************)
\* what the loop of get_fermi_levels (lines 271-276) appends for the j-th
\* point of the reservoirs of the call in hand
PaFermiLevelOf(j) ==
    solve_fermi_level(frozen_defect_concentrations, external_defects,
                      PaPoints[j][2], PaResolved.T)

\* what the loop of get_concentrations (lines 148-164) gives for the j-th
\* point of the reservoirs of the call in hand, under output mode m
PaConcentrationsOf(j, m) ==
    concentrations_point(frozen_defect_concentrations, external_defects, m,
                         PaPoints[j][2], PaResolved.T)

\* C29: for the same PressureAnalysis, reservoirs and temperature, the
\* fermi_levels series of get_fermi_levels is the fermi_levels series of
\* get_concentrations under each of the output modes 'all', 'total' and
\* 'stable', and the carrier_concentrations series of get_concentrations is
\* the same under the three modes.
C29_SameFermiLevels ==
    /\ PaReturned("get_fermi_levels") =>
           \A j \in 1..Len(PaPoints), m \in PaOutputModes :
               PaConcentrationsOf(j, m).status = "ok" =>
                   PaSeries("fermi_levels")[j] = Num(PaConcentrationsOf(j, m).mue)
    /\ PaReturned("get_concentrations") =>
           \A j \in 1..Len(PaPoints) :
               /\ PaFermiLevelOf(j).status = "ok"
               /\ PaSeries("fermi_levels")[j] = Num(PaFermiLevelOf(j).mue)
               /\ \A m \in PaOutputModes :
                      PaConcentrationsOf(j, m).status = "ok" =>
                          /\ PaSeries("fermi_levels")[j] =
                                 Num(PaConcentrationsOf(j, m).mue)
                          /\ PaSeries("carrier_concentrations")[j] =
                                 PyCarriers(PaConcentrationsOf(j, m).carriers)

\* get_concentrations has returned two points under 'stable' on an object
\* with a configured frozen dict, every mode gives a result for both points
\* and the defect concentrations of 'stable' are not those of 'total'
C29_Witness ==
    /\ PaReturned("get_concentrations")
    /\ pa_call.concentrations_output = "stable"
    /\ frozen_defect_concentrations # NoneV
    /\ Len(PaPoints) = 2
    /\ \A j \in 1..2, m \in PaOutputModes : PaConcentrationsOf(j, m).status = "ok"
    /\ \E j \in 1..2 :
           PaConcentrationsOf(j, "total").conc # PaSeries("defect_concentrations")[j]

\* get_fermi_levels has returned two points with different Fermi levels on
\* an object configured with external defects
C29_WitnessFermiLevels ==
    /\ PaReturned("get_fermi_levels")
    /\ external_defects # <<>>
    /\ Len(PaPoints) = 2
    /\ PaSeries("fermi_levels")[1] # PaSeries("fermi_levels")[2]
    /\ \A j \in 1..2, m \in PaOutputModes : PaConcentrationsOf(j, m).status = "ok"

(***************************************************************************)
(* Stripping the multiplicity qualifier, checked under SpecSweep.          *)
(***************************************************************************)
\* the names the second solve of a quenched call is to freeze at first-stage
\* totals
PaToFreeze ==
    IF pa_call.quenched_species = NoneV
    THEN {PaQuenchKey(n) : n \in PaSpecies}
    ELSE PaListed

\* every point solved so far froze each name of PaToFreeze at the sum of the
\* first-stage totals of the species of that name
PaFrozeTotals ==
    \A j \in 1..Len(pa_solves) :
        pa_solves[j].quenched_concentrations # NoneV =>
            \A s \in PaToFreeze :
                /\ s \in DOMAIN pa_solves[j].quenched_concentrations.map
                /\ pa_solves[j].quenched_concentrations.map[s] = PaFirstStageTotal(j, s)

\* C30: in get_quenched_fermi_levels with ignore_multiplicity=True, every
\* stripped name is frozen at the sum of the first-stage totals of the
\* species whose name strips to it, and every name of quenched_species,
\* stripped or not and also when listed more than once, resolves to a
\* frozen concentration without a KeyError.
C30_StrippingLosesNothing ==
    (PaCalled("get_quenched_fermi_levels") /\ pa_call.ignore_multiplicity) =>
        /\ PaFrozeTotals
        /\ pa_pc = "done" => pa_ret.status # "KeyError"

\* ['Vac_Na_mult2', 'Vac_Na_mult2'] was passed with ignore_multiplicity=True:
\* the list is ['Vac_Na', 'Vac_Na_mult2'] and the first point has raised
\* KeyError
C30_DuplicateRaises ==
    /\ PaCalled("get_quenched_fermi_levels")
    /\ pa_call.ignore_multiplicity
    /\ pa_call.quenched_species = Lst(<<S_Vac_Na_mult2, S_Vac_Na_mult2>>)
    /\ quenched_species = Lst(<<S_Vac_Na, S_Vac_Na_mult2>>)
    /\ pa_pc = "done"
    /\ pa_ret.status = "KeyError"
    /\ Len(pa_solves) = 1

\* what holds: with no name listed twice, every name resolves and is frozen
\* at the first-stage total of its species
C30_DistinctNamesResolve ==
    (/\ PaCalled("get_quenched_fermi_levels")
     /\ pa_call.ignore_multiplicity
     /\ pa_call.quenched_species # NoneV =>
            \A a, b \in 1..Len(pa_call.quenched_species.items) :
                pa_call.quenched_species.items[a] = pa_call.quenched_species.items[b]
                    => a = b) =>
        /\ PaFrozeTotals
        /\ pa_pc = "done" => pa_ret.status # "KeyError"

====
